---- MODULE Spec2Model ----
(***************************************************************************)
(* Text-to-SQL converter: the Express backend's phrase translator          *)
(* (generateSQLFromText and its clause extractors) and the POST /convert   *)
(* handler that drives it.  JavaScript strings are TLA+ strings; the       *)
(* regular expressions of the source are transcribed as syntax trees and   *)
(* run by a backtracking matcher with JavaScript's priorities (leftmost    *)
(* start, alternatives in order, greedy/lazy quantifiers).                 *)
(***************************************************************************)
EXTENDS Integers, Sequences, FiniteSets, TLC

VARIABLES
    pc,          \* position of the /convert request: idle, pragma, exec, done
    text,        \* req.body.text
    table,       \* req.body.table
    columnNames, \* columns.map(col => col.name) of the PRAGMA callback
    sqlQuery,    \* generateSQLFromText(...).sqlQuery
    error,       \* generateSQLFromText(...).error (a JavaScript value)
    status,      \* HTTP status of the response sent, 0 while none is sent
    database,    \* req.body.database
    dbConnections, \* the keys of the dbConnections map: the databases opened
    rWord,       \* column resolver run: the word
    rCols,       \* column resolver run: the column list
    rOut,        \* column resolver run: the result (a JavaScript value)
    rLog,        \* column resolver run: the calls made so far, word and result
    xFn,         \* extractor run: the extractor applied to text and columnNames
    xKeywords,   \* extractor run: the keywords handed to extractColumnForAggregate
    xOut,        \* extractor run: the result (a JavaScript value)
    flights,     \* concurrent run: the /convert requests in flight, by number
    sqlite,      \* /query and /data run: the database file, its tables and rows
    qry,         \* /query and /data run: the POST /query request
    ins,         \* /query and /data run: the POST /data/:database/:table request
    files,       \* store run: the names with a file <name>.db in DB_DIR
    metadata,    \* store run: the rows of metadata.db (databases, tables, columns)
    catalog,     \* store run: the tables of each database file, with their columns
    orphans,     \* store run: the kept connections whose file was deleted
    crt,         \* store run: the POST /databases request
    mkt,         \* store run: the POST /tables request
    lst,         \* store run: the GET /tables/:database request
    conns,       \* shutdown run: the state of each cached connection
    metadataDB,  \* shutdown run: the state of the metadata connection
    process,     \* shutdown run: running, stopping (SIGINT taken) or exited
    newTable,    \* form run: the newTable state of the create-table form
    posting,     \* form run: createTable is waiting for POST /tables
    databases,   \* UI run: the databases state (names)
    tables,      \* UI run: the tables state (names)
    selectedDatabase, \* UI run: the selectedDatabase state
    selectedTable,    \* UI run: the selectedTable state
    fetches,     \* UI run: the requests of fetchDatabases and fetchTables in flight
    posted       \* UI run: the body of the last POST /convert of executeQuery

vars == <<pc, text, database, table, columnNames, sqlQuery, error, status,
          dbConnections, rWord, rCols, rOut, rLog, xFn, xKeywords, xOut, flights,
          sqlite, qry, ins, files, metadata, catalog, orphans, crt, mkt, lst,
          conns, metadataDB, process, newTable, posting,
          databases, tables, selectedDatabase, selectedTable, fetches, posted>>

(***************************************************************************)
(* JavaScript values that may be null or undefined.                        *)
(***************************************************************************)
JsStr(s) == [k |-> "string", v |-> s]
JsNull == [k |-> "null", v |-> ""]
JsUndefined == [k |-> "undefined", v |-> ""]

\* ToBoolean: null, undefined and the empty string are falsy.
Truthy(x) == x.k = "string" /\ x.v # ""

\* ToString inside a template literal: `${x}`.
Tpl(x) == IF x.k = "string" THEN x.v ELSE x.k

\* a || b
JsOr(a, b) == IF Truthy(a) THEN a ELSE b

(***************************************************************************)
(* Characters and strings.                                                 *)
(***************************************************************************)
LowerChars == {"a","b","c","d","e","f","g","h","i","j","k","l","m",
               "n","o","p","q","r","s","t","u","v","w","x","y","z"}
UpperChars == {"A","B","C","D","E","F","G","H","I","J","K","L","M",
               "N","O","P","Q","R","S","T","U","V","W","X","Y","Z"}
DigitChars == {"0","1","2","3","4","5","6","7","8","9"}
WordChars == LowerChars \cup UpperChars \cup DigitChars \cup {"_"}
SpaceChars == {" ", "\t", "\n", "\r"}
LineTerminators == {"\n", "\r"}

LowerMap ==
    "A" :> "a" @@ "B" :> "b" @@ "C" :> "c" @@ "D" :> "d" @@ "E" :> "e" @@ "F" :> "f" @@
    "G" :> "g" @@ "H" :> "h" @@ "I" :> "i" @@ "J" :> "j" @@ "K" :> "k" @@ "L" :> "l" @@
    "M" :> "m" @@ "N" :> "n" @@ "O" :> "o" @@ "P" :> "p" @@ "Q" :> "q" @@ "R" :> "r" @@
    "S" :> "s" @@ "T" :> "t" @@ "U" :> "u" @@ "V" :> "v" @@ "W" :> "w" @@ "X" :> "x" @@
    "Y" :> "y" @@ "Z" :> "z"

UpperMap ==
    "a" :> "A" @@ "b" :> "B" @@ "c" :> "C" @@ "d" :> "D" @@ "e" :> "E" @@ "f" :> "F" @@
    "g" :> "G" @@ "h" :> "H" @@ "i" :> "I" @@ "j" :> "J" @@ "k" :> "K" @@ "l" :> "L" @@
    "m" :> "M" @@ "n" :> "N" @@ "o" :> "O" @@ "p" :> "P" @@ "q" :> "Q" @@ "r" :> "R" @@
    "s" :> "S" @@ "t" :> "T" @@ "u" :> "U" @@ "v" :> "V" @@ "w" :> "W" @@ "x" :> "X" @@
    "y" :> "Y" @@ "z" :> "Z"

\* A string of the model holds ASCII characters only.  One character outside
\* ASCII is needed, U+212A KELVIN SIGN: toLowerCase turns it into the letter k,
\* while it is no \w character and no regex of the source, all without the u
\* flag, takes it for a k.  The model writes it as the character @, which
\* stands for nothing else in any phrase.
KelvinSign == "@"

\* String.prototype.toLowerCase, character by character
LowerOf(c) ==
    IF c \in UpperChars THEN LowerMap[c] ELSE IF c = KelvinSign THEN "k" ELSE c

\* Canonicalize of a regex with the i flag and without the u flag, character
\* by character: the two cases of an ASCII letter are one, and a character
\* outside ASCII is never one with an ASCII character
CanonicalOf(c) == IF c \in UpperChars THEN LowerMap[c] ELSE c
UpperOf(c) == IF c \in LowerChars THEN UpperMap[c] ELSE c

Ch(s, i) == SubSeq(s, i, i)

RECURSIVE toLowerCase(_)
toLowerCase(s) ==
    IF s = "" THEN "" ELSE LowerOf(Head(s)) \o toLowerCase(Tail(s))

RECURSIVE canonicalize(_)
canonicalize(s) ==
    IF s = "" THEN "" ELSE CanonicalOf(Head(s)) \o canonicalize(Tail(s))

RECURSIVE toUpperCase(_)
toUpperCase(s) ==
    IF s = "" THEN "" ELSE UpperOf(Head(s)) \o toUpperCase(Tail(s))

RECURSIVE trimStart(_)
trimStart(s) ==
    IF s # "" /\ Head(s) \in SpaceChars THEN trimStart(Tail(s)) ELSE s

RECURSIVE trimEnd(_)
trimEnd(s) ==
    IF s # "" /\ Ch(s, Len(s)) \in SpaceChars
    THEN trimEnd(SubSeq(s, 1, Len(s) - 1)) ELSE s

trim(s) == trimEnd(trimStart(s))

\* s.includes(sub)
includes(s, sub) ==
    \E i \in 1..(Len(s) - Len(sub) + 1) : SubSeq(s, i, i + Len(sub) - 1) = sub

\* s.endsWith(sub), s.startsWith(sub)
endsWith(s, sub) ==
    Len(sub) <= Len(s) /\ SubSeq(s, Len(s) - Len(sub) + 1, Len(s)) = sub
startsWith(s, sub) ==
    Len(sub) <= Len(s) /\ SubSeq(s, 1, Len(sub)) = sub

\* array.join(sep)
RECURSIVE join(_, _)
join(xs, sep) ==
    IF xs = <<>> THEN ""
    ELSE IF Len(xs) = 1 THEN xs[1]
    ELSE xs[1] \o sep \o join(Tail(xs), sep)

(***************************************************************************)
(* Regular expressions.  A pattern of the source is written as a tree:     *)
(*   Lit("show")      the characters show                                  *)
(*   Set(cs)          [...]      one character of cs                       *)
(*   NotSet(cs)       [^...]     one character not in cs                   *)
(*   AnyChar          .          one character, no line terminator         *)
(*   WB               \b         a word boundary                           *)
(*   Cat(<<a, b>>)    ab                                                   *)
(*   Alt(<<a, b>>)    a|b                                                  *)
(*   Plus(a) Star(a)  a+  a*     greedy, a a character class               *)
(*   LazyStar(a)      a*?        lazy, a a character class                 *)
(*   Opt(a)           a?                                                   *)
(*   Cap(n, a)        (a)        capture group number n                    *)
(* Every pattern of the source carries the i flag, so letters are compared *)
(* without regard to case: the matcher runs on the canonicalized subject.  *)
(***************************************************************************)
Lit(s) == [t |-> "lit", s |-> s]
Set(cs) == [t |-> "set", cs |-> cs, neg |-> FALSE]
NotSet(cs) == [t |-> "set", cs |-> cs, neg |-> TRUE]
AnyChar == [t |-> "set", cs |-> LineTerminators, neg |-> TRUE]
WB == [t |-> "wb"]
Cat(rs) == [t |-> "cat", rs |-> rs]
Alt(rs) == [t |-> "alt", rs |-> rs]
Plus(r) == [t |-> "rep", r |-> r, min |-> 1, greedy |-> TRUE]
Star(r) == [t |-> "rep", r |-> r, min |-> 0, greedy |-> TRUE]
LazyStar(r) == [t |-> "rep", r |-> r, min |-> 0, greedy |-> FALSE]
Opt(r) == [t |-> "opt", r |-> r]
Cap(n, r) == [t |-> "cap", n |-> n, r |-> r]

\* \w \s \d
W == Set(WordChars)
S == Set(SpaceChars)
D == Set(DigitChars)

IsWordAt(s, i) == i >= 1 /\ i <= Len(s) /\ Ch(s, i) \in WordChars

\* a capture: the positions it spans, NoCap while the group has not matched
NoCap == [from |-> 0, to |-> 0]

\* the end of the longest run of characters of the class from position i
RECURSIVE runEnd(_, _, _)
runEnd(cls, s, i) ==
    IF i <= Len(s) /\ ((Ch(s, i) \in cls.cs) # cls.neg) THEN runEnd(cls, s, i + 1) ELSE i

Fail == [ok |-> FALSE, pos |-> 0, caps |-> <<>>]

\* the first try when it succeeded, else the second
OrElse(a, b) == IF a.ok THEN a ELSE b

\* Run(k, s, i, caps): the backtracking matcher.  k is the continuation, the
\* patterns still to be matched one after the other from position i; the
\* result is the first way, in the matcher's order of trying, in which all
\* of k matches, or Fail.  s is the canonicalized subject: the literals of
\* the source's patterns are in lower case and its character classes hold
\* both cases of every letter they hold, which is how the i flag compares.
RECURSIVE Run(_, _, _, _)
RECURSIVE RunAlt(_, _, _, _, _, _)
RECURSIVE RunRep(_, _, _, _, _, _)

Run(k, s, i, caps) ==
    IF Len(k) = 0 THEN [ok |-> TRUE, pos |-> i, caps |-> caps]
    ELSE LET re == Head(k)
             rest == Tail(k)
         IN
         CASE re.t = "lit" ->
                LET n == Len(re.s) IN
                IF i + n - 1 <= Len(s) /\ SubSeq(s, i, i + n - 1) = re.s
                THEN Run(rest, s, i + n, caps) ELSE Fail
           [] re.t = "set" ->
                IF i <= Len(s) /\ ((Ch(s, i) \in re.cs) # re.neg)
                THEN Run(rest, s, i + 1, caps) ELSE Fail
           [] re.t = "wb" ->
                IF IsWordAt(s, i - 1) # IsWordAt(s, i)
                THEN Run(rest, s, i, caps) ELSE Fail
           [] re.t = "cat" -> Run(re.rs \o rest, s, i, caps)
           [] re.t = "alt" -> RunAlt(re.rs, 1, rest, s, i, caps)
           [] re.t = "rep" ->
                \* a quantified character class (every quantifier of the
                \* source's patterns is on one): greedy tries the longest run
                \* first and gives back one character at a time, lazy starts
                \* from the shortest
                LET longest == runEnd(re.r, s, i) IN
                IF re.greedy
                THEN RunRep(rest, s, caps, longest, i + re.min, -1)
                ELSE RunRep(rest, s, caps, i + re.min, longest, 1)
           [] re.t = "opt" ->
                LET taken == Run(<<re.r>> \o rest, s, i, caps) IN
                IF taken.ok THEN taken ELSE Run(rest, s, i, caps)
           [] re.t = "cap" ->
                Run(<<re.r, [t |-> "end", n |-> re.n, from |-> i]>> \o rest, s, i, caps)
           [] re.t = "end" ->
                Run(rest, s, i, [caps EXCEPT ![re.n] = [from |-> re.from, to |-> i]])

\* the alternatives from the k-th on, in order
RunAlt(rs, k, rest, s, i, caps) ==
    IF k > Len(rs) THEN Fail
    ELSE LET r == Run(<<rs[k]>> \o rest, s, i, caps) IN
         IF r.ok THEN r ELSE RunAlt(rs, k + 1, rest, s, i, caps)

\* the rest of the pattern after a repetition ending at j, then at j + step,
\* ... up to last: the first of these ends at which the rest matches.  The
\* ends are tried in this order, the search being split in halves.
RunRep(rest, s, caps, j, last, step) ==
    IF (step > 0 /\ j > last) \/ (step < 0 /\ j < last) THEN Fail
    ELSE IF j = last THEN Run(rest, s, j, caps)
    ELSE LET mid == j + step * (((last - j) * step) \div 2) IN
         OrElse(RunRep(rest, s, caps, j, mid, step),
                RunRep(rest, s, caps, mid + step, last, step))

\* A RegExp object: the tree and its number of capture groups.
RegExp(re, n) == [re |-> re, n |-> n]

NoMatch == [found |-> FALSE, index |-> 0, all |-> "", caps |-> <<>>]

\* the captured text, taken from the subject as given; undefined for a group
\* that took no part in the match
Captured(s, c) == IF c = NoCap THEN JsUndefined ELSE JsStr(SubSeq(s, c.from, c.to - 1))

\* the match object of the run r that succeeded from position i
matched(rx, s, i, r) ==
    [found |-> TRUE, index |-> i,
     all |-> SubSeq(s, i, r.pos - 1),
     caps |-> [k \in 1..rx.n |-> Captured(s, r.caps[k])]]

\* the first match when there is one, else the second
FirstFound(a, b) == IF a.found THEN a ELSE b

\* the match of rx at start position i, if any
execAt(rx, s, lower, i, r) == IF r.ok THEN matched(rx, s, i, r) ELSE NoMatch

\* RegExp.prototype.exec without the g flag: the first start position, from
\* the left, at which the pattern matches, and the matcher's first way there.
\* execFrom tries the start positions i..last in order, the search being
\* split in halves.
RECURSIVE execFrom(_, _, _, _, _)
execFrom(rx, s, lower, i, last) ==
    IF i > last THEN NoMatch
    ELSE IF i = last
         THEN execAt(rx, s, lower, i, Run(<<rx.re>>, lower, i, [k \in 1..rx.n |-> NoCap]))
    ELSE FirstFound(execFrom(rx, s, lower, i, (i + last) \div 2),
                    execFrom(rx, s, lower, (i + last) \div 2 + 1, last))

\* text.match(regex) for a regex without the g flag; regex.test(text)
match(s, rx) == execFrom(rx, s, canonicalize(s), 1, Len(s) + 1)
test(rx, s) == match(s, rx).found

(***************************************************************************)
(* isNaN(value) for a string: Number(value) is NaN unless the trimmed      *)
(* string is empty or a numeric literal (decimal with optional fraction    *)
(* and exponent, Infinity, or a 0x/0o/0b integer).                         *)
(***************************************************************************)
RECURSIVE allIn(_, _)
allIn(s, cs) == s = "" \/ (Head(s) \in cs /\ allIn(Tail(s), cs))

isDigits(s) == s # "" /\ allIn(s, DigitChars)

\* index of the first character of s that lies in cs, 0 when there is none
RECURSIVE indexOfAny(_, _, _)
indexOfAny(s, cs, i) ==
    IF i > Len(s) THEN 0 ELSE IF Ch(s, i) \in cs THEN i ELSE indexOfAny(s, cs, i + 1)

isMantissa(s) ==
    LET dot == indexOfAny(s, {"."}, 1) IN
    IF dot = 0 THEN isDigits(s)
    ELSE LET a == SubSeq(s, 1, dot - 1)
             b == SubSeq(s, dot + 1, Len(s))
         IN allIn(a, DigitChars) /\ allIn(b, DigitChars) /\ (a # "" \/ b # "")

isUnsignedDecimal(s) ==
    LET e == indexOfAny(s, {"e", "E"}, 1) IN
    IF s = "Infinity" THEN TRUE
    ELSE IF e = 0 THEN isMantissa(s)
    ELSE LET x == SubSeq(s, e + 1, Len(s))
             y == IF x # "" /\ Head(x) \in {"+", "-"} THEN Tail(x) ELSE x
         IN isMantissa(SubSeq(s, 1, e - 1)) /\ isDigits(y)

isRadixLiteral(s) ==
    /\ Len(s) >= 3
    /\ Ch(s, 1) = "0"
    /\ LET r == Ch(s, 2)
           d == SubSeq(s, 3, Len(s))
       IN \/ r \in {"x", "X"} /\ allIn(d, DigitChars \cup {"a","b","c","d","e","f",
                                                          "A","B","C","D","E","F"})
          \/ r \in {"o", "O"} /\ allIn(d, {"0","1","2","3","4","5","6","7"})
          \/ r \in {"b", "B"} /\ allIn(d, {"0","1"})

isNaN(value) ==
    LET t == trim(value)
        u == IF t # "" /\ Head(t) \in {"+", "-"} THEN Tail(t) ELSE t
    IN ~ (t = "" \/ isUnsignedDecimal(u) \/ isRadixLiteral(t))

(***************************************************************************)
(* findBestColumnMatch                                                     *)
(***************************************************************************)
\* Array.prototype.find over the positions whose element satisfies the
\* callback: the element at the first such position, else undefined
find(xs, hits) ==
    IF hits = {} THEN JsUndefined
    ELSE JsStr(xs[CHOOSE i \in hits : \A j \in hits : i <= j])

\* a resolver that tries the contains tier before the exact tier
findBestColumnMatchContainsFirst(word, cols) ==
    JsOr(find(cols, {i \in DOMAIN cols : includes(toLowerCase(cols[i]), toLowerCase(word))}),
         JsOr(find(cols, {i \in DOMAIN cols : toLowerCase(cols[i]) = toLowerCase(word)}),
              JsOr(find(cols, {i \in DOMAIN cols : includes(toLowerCase(word), toLowerCase(cols[i]))}),
                   JsNull)))

\* a resolver that answers every second call of a run from the result of the
\* call before it
findBestColumnMatchRemembering(word, cols) ==
    IF Len(rLog) % 2 = 1 THEN rLog[Len(rLog)].out
    ELSE JsOr(find(cols, {i \in DOMAIN cols : toLowerCase(cols[i]) = toLowerCase(word)}),
              JsOr(find(cols, {i \in DOMAIN cols :
                                  includes(toLowerCase(cols[i]), toLowerCase(word))}),
                   JsOr(find(cols, {i \in DOMAIN cols :
                                       includes(toLowerCase(word), toLowerCase(cols[i]))}),
                        JsNull)))

\* exactMatch, else containsMatch, else partialMatch, else null: each
\* "if (x) return x" passes on when x is undefined or the empty string
findBestColumnMatchLower(lowerWord, cols) ==
    JsOr(find(cols, {i \in DOMAIN cols : toLowerCase(cols[i]) = lowerWord}),
         JsOr(find(cols, {i \in DOMAIN cols : includes(toLowerCase(cols[i]), lowerWord)}),
              JsOr(find(cols, {i \in DOMAIN cols : includes(lowerWord, toLowerCase(cols[i]))}),
                   JsNull)))

findBestColumnMatch(word, cols) == findBestColumnMatchLower(toLowerCase(word), cols)

(***************************************************************************)
(* extractWhereConditions                                                  *)
(***************************************************************************)
QuoteChars == {"'", "\""}

\* /(\w+)\s+(?:greater than|more than|above|over)\s+([\d.]+)/i
GreaterRegex ==
    RegExp(Cat(<<Cap(1, Plus(W)), Plus(S),
                 Alt(<<Lit("greater than"), Lit("more than"), Lit("above"), Lit("over")>>),
                 Plus(S), Cap(2, Plus(Set(DigitChars \cup {"."})))>>), 2)

\* /(\w+)\s+(?:less than|fewer than|below|under)\s+([\d.]+)/i
LessRegex ==
    RegExp(Cat(<<Cap(1, Plus(W)), Plus(S),
                 Alt(<<Lit("less than"), Lit("fewer than"), Lit("below"), Lit("under")>>),
                 Plus(S), Cap(2, Plus(Set(DigitChars \cup {"."})))>>), 2)

\* /(\w+)\s+(?:equal to|exactly|is)\s+([\w.]+)/i
EqualRegex ==
    RegExp(Cat(<<Cap(1, Plus(W)), Plus(S),
                 Alt(<<Lit("equal to"), Lit("exactly"), Lit("is")>>),
                 Plus(S), Cap(2, Plus(Set(WordChars \cup {"."})))>>), 2)

\* /(\w+)\s+(?:containing|contain|like|with)\s+['"]?([^'"\s]+)['"]?/i
LikeRegex ==
    RegExp(Cat(<<Cap(1, Plus(W)), Plus(S),
                 Alt(<<Lit("containing"), Lit("contain"), Lit("like"), Lit("with")>>),
                 Plus(S), Opt(Set(QuoteChars)),
                 Cap(2, Plus(NotSet(QuoteChars \cup SpaceChars))),
                 Opt(Set(QuoteChars))>>), 2)

\* /(\w+)\s+([><=]=?)\s+([\w.]+)/i
CompareRegex ==
    RegExp(Cat(<<Cap(1, Plus(W)), Plus(S),
                 Cap(2, Cat(<<Set({">", "<", "="}), Opt(Lit("="))>>)),
                 Plus(S), Cap(3, Plus(Set(WordChars \cup {"."})))>>), 3)

\* /(?:named|called|name is|is)\s+['"]?([^'"\s]+)['"]?/i
NamedRegex ==
    RegExp(Cat(<<Alt(<<Lit("named"), Lit("called"), Lit("name is"), Lit("is")>>),
                 Plus(S), Opt(Set(QuoteChars)),
                 Cap(1, Plus(NotSet(QuoteChars \cup SpaceChars))),
                 Opt(Set(QuoteChars))>>), 1)

conditionPatterns ==
    <<GreaterRegex, LessRegex, EqualRegex, LikeRegex, CompareRegex, NamedRegex>>

\* the condition text of handler k for the match m and the resolved column
conditionText(k, m, column) ==
    CASE k = 1 -> column \o " > " \o m.caps[2].v
      [] k = 2 -> column \o " < " \o m.caps[2].v
      [] k = 3 ->
           column \o " = " \o (IF isNaN(m.caps[2].v) THEN "'" \o m.caps[2].v \o "'"
                               ELSE m.caps[2].v)
      [] k = 4 -> column \o " LIKE '%" \o m.caps[2].v \o "%'"
      [] k = 5 ->
           column \o " " \o m.caps[2].v \o " "
           \o (IF isNaN(m.caps[3].v) /\ m.caps[2].v \notin {">", "<", ">=", "<="}
               THEN "'" \o m.caps[3].v \o "'" ELSE m.caps[3].v)
      [] k = 6 -> column \o " = '" \o m.caps[1].v \o "'"

\* "return column ? ... : null"
conditionFor(k, m, column) ==
    IF Truthy(column) THEN JsStr(conditionText(k, m, column.v)) ELSE JsNull

\* the handler of condition pattern k, applied to its match m
conditionHandler(k, m, cols) ==
    conditionFor(k, m,
                 IF k = 6
                 THEN JsOr(findBestColumnMatch("name", cols),
                           findBestColumnMatch("title", cols))
                 ELSE findBestColumnMatch(m.caps[1].v, cols))

\* "if (match) { const condition = pattern.handler(match); ... }"
handled(k, m, cols) == IF m.found THEN conditionHandler(k, m, cols) ELSE JsNull

\* "if (condition) conditions.push(condition)"
pushed(x) == IF Truthy(x) THEN <<x.v>> ELSE <<>>

\* a loop that puts the conditions of the later patterns first
RECURSIVE collectConditionsReversed(_, _, _)
collectConditionsReversed(k, txt, cols) ==
    IF k > Len(conditionPatterns) THEN <<>>
    ELSE collectConditionsReversed(k + 1, txt, cols)
         \o pushed(handled(k, match(txt, conditionPatterns[k]), cols))

\* the loop over conditionPatterns: the conditions pushed by patterns k..6
RECURSIVE collectConditions(_, _, _)
collectConditions(k, txt, cols) ==
    IF k > Len(conditionPatterns) THEN <<>>
    ELSE pushed(handled(k, match(txt, conditionPatterns[k]), cols))
         \o collectConditions(k + 1, txt, cols)

\* "conditions.length > 0 ? conditions.join(' AND ') : null"
joinedOrNull(conditions) ==
    IF Len(conditions) > 0 THEN JsStr(join(conditions, " AND ")) ELSE JsNull

extractWhereConditions(txt, cols) == joinedOrNull(collectConditions(1, txt, cols))

(***************************************************************************)
(* extractColumns, extractOrderBy, extractColumnForAggregate, extractLimit *)
(***************************************************************************)
\* /\s*,\s*/
CommaRegex == RegExp(Cat(<<Star(S), Lit(","), Star(S)>>), 0)

\* String.prototype.split(regex): p is the start of the current piece, q the
\* position at which the separator is tried next, r the run tried there
RECURSIVE splitFrom(_, _, _, _)
RECURSIVE splitAt(_, _, _, _, _)
splitFrom(s, rx, p, q) ==
    IF q > Len(s) THEN <<SubSeq(s, p, Len(s))>>
    ELSE splitAt(s, rx, p, q, Run(<<rx.re>>, s, q, [k \in 1..rx.n |-> NoCap]))

splitAt(s, rx, p, q, r) ==
    IF ~r.ok \/ r.pos = p THEN splitFrom(s, rx, p, q + 1)
    ELSE <<SubSeq(s, p, q - 1)>> \o splitFrom(s, rx, r.pos, r.pos)

split(s, rx) == splitFrom(s, rx, 1, 1)

\* a loop that keeps a token that resolves to no column as it was written
RECURSIVE collectColumnsUnchecked(_, _, _)
collectColumnsUnchecked(requested, k, cols) ==
    IF k > Len(requested) THEN <<>>
    ELSE pushed(JsOr(findBestColumnMatch(trim(requested[k]), cols),
                     JsStr(trim(requested[k]))))
         \o collectColumnsUnchecked(requested, k + 1, cols)

\* the loop over requestedColumns: the columns pushed for tokens k..
RECURSIVE collectColumns(_, _, _)
collectColumns(requested, k, cols) ==
    IF k > Len(requested) THEN <<>>
    ELSE pushed(findBestColumnMatch(trim(requested[k]), cols))
         \o collectColumns(requested, k + 1, cols)

\* "validColumns.length > 0 ? validColumns.join(', ') : '*'"
joinedOrStar(validColumns) ==
    IF Len(validColumns) > 0 THEN join(validColumns, ", ") ELSE "*"

extractColumns(txt, cols) ==
    IF txt = "" THEN "*"
    ELSE joinedOrStar(collectColumns(split(txt, CommaRegex), 1, cols))

\* /(?:order by|sort by)\s+(\w+)(?:\s+(asc|desc))?/i
OrderByRegex ==
    RegExp(Cat(<<Alt(<<Lit("order by"), Lit("sort by")>>), Plus(S), Cap(1, Plus(W)),
                 Opt(Cat(<<Plus(S), Cap(2, Alt(<<Lit("asc"), Lit("desc")>>))>>))>>), 2)

\* "return column ? `ORDER BY ${column} ${direction}` : ''"
orderByClause(column, direction) ==
    IF Truthy(column) THEN "ORDER BY " \o column.v \o " " \o direction ELSE ""

\* the body of extractOrderBy after text.match
orderByOf(orderMatch, cols) ==
    IF orderMatch.found
    THEN orderByClause(findBestColumnMatch(orderMatch.caps[1].v, cols),
                       toUpperCase(JsOr(orderMatch.caps[2], JsStr("asc")).v))
    ELSE ""

extractOrderBy(txt, cols) == orderByOf(match(txt, OrderByRegex), cols)

\* new RegExp(`\\b${keyword}\\b.*?\\b(\\w+)\\b`, 'i')
AggregateKeywordRegex(keyword) ==
    RegExp(Cat(<<WB, Lit(keyword), WB, LazyStar(AnyChar), WB, Cap(1, Plus(W)), WB>>), 1)

\* "if (match) { const column = findBestColumnMatch(match[1], ...); ... }"
keywordColumn(m, cols) ==
    IF m.found THEN findBestColumnMatch(m.caps[1].v, cols) ELSE JsNull

\* the loop over keywords: the first keyword whose following word resolves
RECURSIVE aggregateKeywordColumn(_, _, _, _)
RECURSIVE aggregateKeywordFrom(_, _, _, _, _)
aggregateKeywordColumn(txt, cols, keywords, k) ==
    IF k > Len(keywords) THEN JsUndefined
    ELSE aggregateKeywordFrom(txt, cols, keywords, k,
            keywordColumn(match(txt, AggregateKeywordRegex(keywords[k])), cols))

\* "if (column) return column", else the next keyword
aggregateKeywordFrom(txt, cols, keywords, k, column) ==
    IF Truthy(column) THEN column
    ELSE aggregateKeywordColumn(txt, cols, keywords, k + 1)

NumericHints == {"id", "age", "salary", "price", "amount"}

at(xs, i) == IF i \in 1..Len(xs) THEN JsStr(xs[i]) ELSE JsUndefined

\* "columnNames.filter(col => ...)": the columns with a numeric-looking name
numericColumns(cols) ==
    SelectSeq(cols, LAMBDA col : \E h \in NumericHints : includes(toLowerCase(col), h))

\* the result is a JavaScript value: undefined when the column list is empty
extractColumnForAggregate(txt, cols, keywords) ==
    JsOr(aggregateKeywordColumn(txt, cols, keywords, 1),
         JsOr(at(numericColumns(cols), 1), at(cols, 1)))

\* /(?:limit|first|top)\s+(\d+)/i
LimitRegex ==
    RegExp(Cat(<<Alt(<<Lit("limit"), Lit("first"), Lit("top")>>), Plus(S),
                 Cap(1, Plus(D))>>), 1)

limitOf(limitMatch) == IF limitMatch.found THEN limitMatch.caps[1].v ELSE "100"

\* a limit extraction that takes the keyword only as a whole word
extractLimitWholeWord(txt) ==
    limitOf(match(txt, RegExp(Cat(<<WB, Alt(<<Lit("limit"), Lit("first"), Lit("top")>>),
                                    Plus(S), Cap(1, Plus(D))>>), 1)))

extractLimit(txt) == limitOf(match(txt, LimitRegex))

(***************************************************************************)
(* generateSQLFromText: the patterns list                                  *)
(***************************************************************************)
\* \s+ between two words
Words2(a, b) == Cat(<<WB, Lit(a), Plus(S), Lit(b), WB>>)

\* /\b(count|how many)\b.*\b(all|everything|records|rows)\b/i
CountAllPattern ==
    RegExp(Cat(<<WB, Cap(1, Alt(<<Lit("count"), Lit("how many")>>)), WB, Star(AnyChar),
                 WB, Cap(2, Alt(<<Lit("all"), Lit("everything"), Lit("records"),
                                  Lit("rows")>>)), WB>>), 2)

\* /\b(count|how many)\b/i
CountPattern ==
    RegExp(Cat(<<WB, Cap(1, Alt(<<Lit("count"), Lit("how many")>>)), WB>>), 1)

\* /\bshow\s+me\s+all\b|\bselect\s+all\b|\bget\s+all\b|\blist\s+all\b|\beverything\b/i
SelectAllPattern ==
    RegExp(Alt(<<Cat(<<WB, Lit("show"), Plus(S), Lit("me"), Plus(S), Lit("all"), WB>>),
                 Words2("select", "all"), Words2("get", "all"), Words2("list", "all"),
                 Cat(<<WB, Lit("everything"), WB>>)>>), 0)

\* /\bfind\s+records\s+where\b|\bfilter\s+by\b/i
FilterPattern ==
    RegExp(Alt(<<Cat(<<WB, Lit("find"), Plus(S), Lit("records"), Plus(S), Lit("where"),
                       WB>>),
                 Words2("filter", "by")>>), 0)

\* /\bshow\s+(?:me\s+)?(.*?)\s+where\b/i
ShowWherePattern ==
    RegExp(Cat(<<WB, Lit("show"), Plus(S), Opt(Cat(<<Lit("me"), Plus(S)>>)),
                 Cap(1, LazyStar(AnyChar)), Plus(S), Lit("where"), WB>>), 1)

\* /show\s+(?:me\s+)?(.*?)\s+where/i, of the builder
ShowWhereRegex ==
    RegExp(Cat(<<Lit("show"), Plus(S), Opt(Cat(<<Lit("me"), Plus(S)>>)),
                 Cap(1, LazyStar(AnyChar)), Plus(S), Lit("where")>>), 1)

\* /\b(what|which|show me|display|get)\b.*\b(but|only|just)\s+([\w\s,]+)\b/i
OnlyPattern ==
    RegExp(Cat(<<WB, Cap(1, Alt(<<Lit("what"), Lit("which"), Lit("show me"),
                                  Lit("display"), Lit("get")>>)), WB, Star(AnyChar),
                 WB, Cap(2, Alt(<<Lit("but"), Lit("only"), Lit("just")>>)), Plus(S),
                 Cap(3, Plus(Set(WordChars \cup SpaceChars \cup {","}))), WB>>), 3)

\* /(?:but|only|just)\s+([\w\s,]+)/i, of the builder
OnlyRegex ==
    RegExp(Cat(<<Alt(<<Lit("but"), Lit("only"), Lit("just")>>), Plus(S),
                 Cap(1, Plus(Set(WordChars \cup SpaceChars \cup {","})))>>), 1)

\* /\border\s+by\b|\bsort\s+by\b|\bsorted\b/i
OrderPattern ==
    RegExp(Alt(<<Words2("order", "by"), Words2("sort", "by"),
                 Cat(<<WB, Lit("sorted"), WB>>)>>), 0)

\* /\b(k1|k2|...)\b.*\b(\w+)\b/i
AggregatePattern(keywords) ==
    RegExp(Cat(<<WB, Cap(1, Alt([k \in 1..Len(keywords) |-> Lit(keywords[k])])), WB,
                 Star(AnyChar), WB, Cap(2, Plus(W)), WB>>), 2)

AvgKeywords == <<"avg", "average", "mean">>
SumKeywords == <<"sum", "total">>
MaxKeywords == <<"max", "maximum", "highest", "largest">>
MinKeywords == <<"min", "minimum", "lowest", "smallest">>

\* /\blimit\s+(\d+)\b|\bfirst\s+(\d+)\b|\btop\s+(\d+)\b/i
LimitPattern ==
    RegExp(Alt(<<Cat(<<WB, Lit("limit"), Plus(S), Cap(1, Plus(D)), WB>>),
                 Cat(<<WB, Lit("first"), Plus(S), Cap(2, Plus(D)), WB>>),
                 Cat(<<WB, Lit("top"), Plus(S), Cap(3, Plus(D)), WB>>)>>), 3)

\* the pattern field of each entry of patterns, in declaration order
patterns ==
    <<CountAllPattern, CountPattern, SelectAllPattern, FilterPattern, ShowWherePattern,
      OnlyPattern, OrderPattern, AggregatePattern(AvgKeywords),
      AggregatePattern(SumKeywords), AggregatePattern(MaxKeywords),
      AggregatePattern(MinKeywords), LimitPattern>>

Returned(sql) == [threw |-> FALSE, sql |-> sql]
Threw == [threw |-> TRUE, sql |-> ""]

\* `SELECT ${columns} FROM ${table} WHERE ${conditions}` of the show-where
\* builder, match the result of text.match
showWhereSql(m, txt, tbl, cols) ==
    IF ~m.found THEN Threw
    ELSE Returned("SELECT " \o extractColumns(m.caps[1].v, cols) \o " FROM " \o tbl
                  \o " WHERE " \o Tpl(extractWhereConditions(txt, cols)))

\* `SELECT ${columns} FROM ${table}` of the only builder
onlySql(m, tbl, cols) ==
    IF ~m.found THEN Threw
    ELSE Returned("SELECT " \o extractColumns(m.caps[1].v, cols) \o " FROM " \o tbl)

\* "conditions ? `WHERE ${conditions}` : ''"
whereClause(conditions) == IF Truthy(conditions) THEN "WHERE " \o conditions.v ELSE ""

\* `SELECT FN(${column}) as alias_${column} FROM ${table}`
aggregateSelect(fn, alias, column, tbl) ==
    "SELECT " \o fn \o "(" \o column \o ") as " \o alias \o "_" \o column \o " FROM " \o tbl

\* the sql field of entry k of patterns: the string, or the function applied
\* to the phrase.  match[1] of a null match throws a TypeError.
patternSql(k, txt, tbl, cols) ==
    CASE k \in {1, 2} -> Returned("SELECT COUNT(*) as count FROM " \o tbl)
      [] k = 3 -> Returned("SELECT * FROM " \o tbl)
      [] k = 4 ->
           Returned("SELECT * FROM " \o tbl \o " WHERE "
                    \o Tpl(extractWhereConditions(txt, cols)))
      [] k = 5 -> showWhereSql(match(txt, ShowWhereRegex), txt, tbl, cols)
      [] k = 6 -> onlySql(match(txt, OnlyRegex), tbl, cols)
      [] k = 7 ->
           Returned("SELECT * FROM " \o tbl \o " "
                    \o whereClause(extractWhereConditions(txt, cols)) \o " "
                    \o extractOrderBy(txt, cols))
      [] k = 8 ->
           Returned(aggregateSelect("AVG", "average",
                       Tpl(extractColumnForAggregate(txt, cols, AvgKeywords)), tbl))
      [] k = 9 ->
           Returned(aggregateSelect("SUM", "total",
                       Tpl(extractColumnForAggregate(txt, cols, SumKeywords)), tbl))
      [] k = 10 ->
           Returned(aggregateSelect("MAX", "max",
                       Tpl(extractColumnForAggregate(txt, cols, MaxKeywords)), tbl))
      [] k = 11 ->
           Returned(aggregateSelect("MIN", "min",
                       Tpl(extractColumnForAggregate(txt, cols, MinKeywords)), tbl))
      [] k = 12 ->
           Returned("SELECT * FROM " \o tbl \o " "
                    \o whereClause(extractWhereConditions(txt, cols))
                    \o " LIMIT " \o extractLimit(txt))

SafetyExempt == <<"limit", "count(", "avg(", "sum(", "max(", "min(">>

\* a safety check that looks only for an existing limit
addSafetyLimitNoExemption(sql) ==
    IF ~includes(toLowerCase(sql), "limit") THEN sql \o " LIMIT 100" ELSE sql

\* a safety check that looks for the word count, without the parenthesis
addSafetyLimitCountWord(sql) ==
    IF \A k \in 1..Len(SafetyExempt) : ~includes(toLowerCase(sql), SafetyExempt[k])
       /\ ~includes(toLowerCase(sql), "count")
    THEN sql \o " LIMIT 100" ELSE sql

\* "Add LIMIT for safety if not already present"
addSafetyLimit(sql) ==
    IF \A k \in 1..Len(SafetyExempt) : ~includes(toLowerCase(sql), SafetyExempt[k])
    THEN sql \o " LIMIT 100" ELSE sql

\* a fallback statement that leaves out the LIMIT when there is no condition
fallbackSqlUnlimited(tbl, conditions) ==
    IF Truthy(conditions)
    THEN "SELECT * FROM " \o tbl \o " WHERE " \o conditions.v \o " LIMIT 100"
    ELSE "SELECT * FROM " \o tbl

\* "conditions ? `SELECT * FROM ${table} WHERE ${conditions} LIMIT 100` :
\* `SELECT * FROM ${table} LIMIT 100`"
fallbackSql(tbl, conditions) ==
    IF Truthy(conditions)
    THEN "SELECT * FROM " \o tbl \o " WHERE " \o conditions.v \o " LIMIT 100"
    ELSE "SELECT * FROM " \o tbl \o " LIMIT 100"

\* a fallback that reports an error when it extracts no condition
fallbackWarns(txt, tbl, cols) ==
    [sqlQuery |-> fallbackSql(tbl, extractWhereConditions(txt, cols)),
     error |-> IF Truthy(extractWhereConditions(txt, cols)) THEN JsUndefined
               ELSE JsStr("Could not understand query, showing sample data")]

\* a fallback that drops the extracted conditions
fallbackNoWhere(txt, tbl, cols) ==
    [sqlQuery |-> "SELECT * FROM " \o tbl \o " LIMIT 100", error |-> JsUndefined]

\* "Default fallback - try to extract conditions".  extractWhereConditions
\* has no throwing step for a string phrase, so the catch branch is not taken.
fallback(txt, tbl, cols) ==
    [sqlQuery |-> fallbackSql(tbl, extractWhereConditions(txt, cols)),
     error |-> JsUndefined]

\* a loop that goes to the fallback as soon as a builder throws
tryPatternSkipsRest(k, txt, lowerText, tbl, cols, r) ==
    IF r.threw THEN fallback(txt, tbl, cols)
    ELSE [sqlQuery |-> addSafetyLimit(r.sql), error |-> JsUndefined]

\* "try { const sql = ...; return { sqlQuery: finalSQL }; } catch { continue; }"
\* for entry k, r the outcome of its sql field
RECURSIVE tryPatterns(_, _, _, _, _)
RECURSIVE tryPattern(_, _, _, _, _, _)
tryPattern(k, txt, lowerText, tbl, cols, r) ==
    IF r.threw THEN tryPatterns(k + 1, txt, lowerText, tbl, cols)
    ELSE [sqlQuery |-> addSafetyLimit(r.sql), error |-> JsUndefined]

\* the loop "for (const pattern of patterns)" from entry k on
tryPatterns(k, txt, lowerText, tbl, cols) ==
    IF k > Len(patterns) THEN fallback(txt, tbl, cols)
    ELSE IF test(patterns[k], lowerText)
         THEN tryPattern(k, txt, lowerText, tbl, cols, patternSql(k, txt, tbl, cols))
         ELSE tryPatterns(k + 1, txt, lowerText, tbl, cols)

generateSQLFromText(txt, tbl, cols) ==
    tryPatterns(1, txt, trim(toLowerCase(txt)), tbl, cols)

(***************************************************************************)
(* The requests served: phrases, tables and column lists.                  *)
(***************************************************************************)
\* a phrase is a head followed by at most MaxClauses of the clauses, each
\* after one space, in the order of Clauses
MaxClauses == 1

Heads ==
    {"", "show me all users", "Show me products cheaper than 500", "users",
     "average price", "show name", "how many", "find records where",
     "get only name, age", " LOWEST Qty ", "total qty", "highest price"}

Clauses ==
    <<"where age greater than 20", "where counts over 5", "where name is limited",
      "where limit_val under 9", "order by age desc", "top 5">>

\* p, and p followed by at most n of the clauses from the j-th on
RECURSIVE PhrasesFrom(_, _, _)
PhrasesFrom(p, j, n) ==
    {p} \cup
    IF n = 0 THEN {}
    ELSE UNION {PhrasesFrom(p \o " " \o Clauses[c], c + 1, n - 1) : c \in j..Len(Clauses)}

\* phrases sent as they stand: a comparison together with an ordering, after
\* "show me all" and without it, "get only K" with the Kelvin sign, and an
\* ordering together with a row limit
Extras ==
    {"show me all users where age greater than 20 order by age",
     "users where age greater than 20 order by age",
     "get only " \o KelvinSign, "get only " \o KelvinSign \o " top 5",
     "users order by age desc top 5"}

Phrases == UNION {PhrasesFrom(h, 1, MaxClauses) : h \in Heads} \cup Extras

Databases == {"mydb"}
Tables == {"users", "products", "limits"}

\* what PRAGMA table_info gives: the columns of the table, none for a table
\* that does not exist
ColumnLists ==
    {<<"id", "name", "age">>, <<"id", "price", "qty">>,
     <<"ID", "count", "limit_val", "Name">>, <<>>}

(***************************************************************************)
(* app.post('/convert')                                                    *)
(***************************************************************************)
resolverVars == <<rWord, rCols, rOut, rLog>>
extractorVars == <<xFn, xKeywords, xOut>>
flightVars == <<flights>>
sqlVars == <<sqlite, qry, ins>>
storeVars == <<files, metadata, catalog, orphans, crt, mkt, lst>>
shutdownVars == <<conns, metadataDB, process>>
formVars == <<newTable, posting>>
uiVars == <<databases, tables, selectedDatabase, selectedTable, fetches, posted>>
restVars == <<sqlVars, storeVars, shutdownVars, formVars, uiVars>>
convertVars ==
    <<pc, text, database, table, columnNames, sqlQuery, error, status, dbConnections>>

\* getDBConnection(dbName): the connection is opened and kept on first use
getDBConnection(dbName) == dbConnections \cup {dbName}

\* no extractor run, no concurrent run
ExtractorIdle == xFn = "" /\ xKeywords = <<>> /\ xOut = JsUndefined
FlightsIdle == flights = <<>>
SqlIdle == sqlite = <<>> /\ qry = <<>> /\ ins = <<>>
StoreIdle ==
    /\ files = {} /\ metadata = <<>> /\ catalog = <<>> /\ orphans = {}
    /\ crt = <<>> /\ mkt = <<>> /\ lst = <<>>
ShutdownIdle == conns = <<>> /\ metadataDB = "" /\ process = ""
FormIdle == newTable = <<>> /\ posting = FALSE
UiIdle ==
    /\ databases = <<>> /\ tables = <<>> /\ selectedDatabase = ""
    /\ selectedTable = "" /\ fetches = {} /\ posted = <<>>
RestIdle == SqlIdle /\ StoreIdle /\ ShutdownIdle /\ FormIdle /\ UiIdle

\* no /convert request, no resolver run, no extractor run, no concurrent run
requestVars == <<pc, text, database, table, columnNames, sqlQuery, error, status>>
RequestIdle ==
    /\ pc = "idle" /\ text = "" /\ database = "" /\ table = "" /\ columnNames = <<>>
    /\ sqlQuery = "" /\ error = JsUndefined /\ status = 0
ResolverIdle == rWord = "" /\ rCols = <<>> /\ rOut = JsUndefined /\ rLog = <<>>
translatorVars == <<requestVars, resolverVars, extractorVars, flightVars>>
TranslatorIdle == RequestIdle /\ ResolverIdle /\ ExtractorIdle /\ FlightsIdle

Init ==
    /\ pc = "idle"
    /\ text = ""
    /\ database = ""
    /\ table = ""
    /\ columnNames = <<>>
    /\ sqlQuery = ""
    /\ error = JsUndefined
    /\ status = 0
    /\ dbConnections = {}
    /\ rWord = ""
    /\ rCols = <<>>
    /\ rOut = JsUndefined
    /\ rLog = <<>>
    /\ ExtractorIdle
    /\ FlightsIdle
    /\ RestIdle

\* the handler up to db.all(PRAGMA ...): 400 when a field is missing, else
\* the connection is looked up or opened and the PRAGMA query is started
ConvertRequest ==
    /\ pc = "idle"
    /\ \E t \in Phrases, d \in Databases \cup {""}, tb \in Tables \cup {""} :
          /\ text' = t
          /\ database' = d
          /\ table' = tb
          /\ IF t = "" \/ d = "" \/ tb = ""
             THEN status' = 400 /\ pc' = "done" /\ UNCHANGED dbConnections
             ELSE status' = 0 /\ pc' = "pragma" /\ dbConnections' = getDBConnection(d)
    /\ UNCHANGED <<columnNames, sqlQuery, error, resolverVars, extractorVars, flightVars, restVars>>

\* the PRAGMA callback with err set
PragmaError ==
    /\ pc = "pragma"
    /\ status' = 500
    /\ pc' = "done"
    /\ UNCHANGED <<text, database, table, columnNames, sqlQuery, error, dbConnections,
                   resolverVars, extractorVars, flightVars, restVars>>

\* the PRAGMA callback with the columns: translate, 400 on error, else run the SQL
PragmaCallback ==
    /\ pc = "pragma"
    /\ \E cols \in ColumnLists :
          \E r \in {generateSQLFromText(text, table, cols)} :
          /\ columnNames' = cols
          /\ sqlQuery' = r.sqlQuery
          /\ error' = r.error
          /\ IF Truthy(r.error)
             THEN status' = 400 /\ pc' = "done"
             ELSE status' = 0 /\ pc' = "exec"
    /\ UNCHANGED <<text, database, table, dbConnections, resolverVars, extractorVars, flightVars, restVars>>

\* the callback of db.all(sqlQuery) with err set
ExecError ==
    /\ pc = "exec"
    /\ status' = 500
    /\ pc' = "done"
    /\ UNCHANGED <<text, database, table, columnNames, sqlQuery, error, dbConnections,
                   resolverVars, extractorVars, flightVars, restVars>>

\* the callback of db.all(sqlQuery) with the rows: res.json
ExecCallback ==
    /\ pc = "exec"
    /\ status' = 200
    /\ pc' = "done"
    /\ UNCHANGED <<text, database, table, columnNames, sqlQuery, error, dbConnections,
                   resolverVars, extractorVars, flightVars, restVars>>

\* the response is sent; the server takes the next request
NextRequest ==
    /\ pc = "done"
    /\ pc' = "idle"
    /\ text' = ""
    /\ database' = ""
    /\ table' = ""
    /\ columnNames' = <<>>
    /\ sqlQuery' = ""
    /\ error' = JsUndefined
    /\ status' = 0
    /\ UNCHANGED <<dbConnections, resolverVars, extractorVars, flightVars, restVars>>

Next ==
    \/ ConvertRequest
    \/ PragmaError
    \/ PragmaCallback
    \/ ExecError
    \/ ExecCallback
    \/ NextRequest

Spec == Init /\ [][Next]_vars

(***************************************************************************)
(* The column resolver run on its own: findBestColumnMatch applied to a    *)
(* word and a column list.                                                 *)
(***************************************************************************)
\* a column list holds at most MaxCols columns
MaxCols == 3

ResolverWords == {"name", "NAME", "age", "ages", "user", "x", ""}
ResolverColumns == {"id", "Name", "username", "age", "page"}

\* the lists of n distinct columns
RECURSIVE ListsOf(_)
ListsOf(n) ==
    IF n = 0 THEN {<<>>}
    ELSE {Append(l, c) : l \in ListsOf(n - 1), c \in ResolverColumns}

ResolverLists ==
    {l \in UNION {ListsOf(n) : n \in 0..MaxCols} :
        \A i, j \in 1..Len(l) : i # j => l[i] # l[j]}

ResolverInit ==
    /\ pc = "idle"
    /\ text = ""
    /\ database = ""
    /\ table = ""
    /\ columnNames = <<>>
    /\ sqlQuery = ""
    /\ error = JsUndefined
    /\ status = 0
    /\ dbConnections = {}
    /\ rWord \in ResolverWords
    /\ rCols \in ResolverLists
    /\ rOut = JsUndefined
    /\ rLog = <<>>
    /\ ExtractorIdle
    /\ FlightsIdle
    /\ RestIdle

\* findBestColumnMatch never returns undefined: rOut is undefined until the call
Resolve ==
    /\ rOut = JsUndefined
    /\ rOut' = findBestColumnMatch(rWord, rCols)
    /\ rLog' = <<[word |-> rWord, out |-> findBestColumnMatch(rWord, rCols)]>>
    /\ UNCHANGED <<rWord, rCols, convertVars, extractorVars, flightVars, restVars>>

\* a run makes at most MaxCalls calls
MaxCalls == 3

\* the words of the calls after the first: the same word again, the column it
\* resolved to, and another word
LaterWords == {rWord, "id"} \cup (IF rOut.k = "string" THEN {rOut.v} ELSE {})

\* a further call of findBestColumnMatch on the same column list
ResolveAgain ==
    /\ rOut # JsUndefined
    /\ Len(rLog) < MaxCalls
    /\ \E w \in LaterWords :
          rLog' = Append(rLog, [word |-> w, out |-> findBestColumnMatch(w, rCols)])
    /\ UNCHANGED <<rWord, rCols, rOut, convertVars, extractorVars, flightVars, restVars>>

ResolverNext ==
    \/ Resolve
    \/ ResolveAgain

ResolverSpec == ResolverInit /\ [][ResolverNext]_vars

(***************************************************************************)
(* The clause extractors run on their own: one of extractWhereConditions,  *)
(* extractColumns, extractOrderBy, extractColumnForAggregate and           *)
(* extractLimit applied to a text and a column list.                       *)
(***************************************************************************)
\* a fragment handed to extractColumns holds at most MaxTokens tokens
MaxTokens == 2

ExtractorTokens == {"name", " AGE ", "zzz", ""}

\* the fragments of n tokens, a comma between two tokens
RECURSIVE FragmentsOf(_)
FragmentsOf(n) ==
    IF n = 1 THEN ExtractorTokens
    ELSE {f \o "," \o t : f \in FragmentsOf(n - 1), t \in ExtractorTokens}

ExtractorPhrases ==
    {"items age under 30 id over 5", "age over 20", "zzz over 5", "name is limited",
     "users where age > abc", "age = 7", "name like 5", "named 42", "title called 'Bob'",
     "qty >= 3 and price exactly 9.5",
     "top 5 users", "stop 5", "top users limit 7", "First  10 then top 3", "limit",
     "order by age desc", "sort by Name", "order by zzz asc",
     "average price", "mean of the salary", "largest"}

ExtractorTexts == ExtractorPhrases \cup UNION {FragmentsOf(n) : n \in 1..MaxTokens}

AggregateKeywords == {AvgKeywords, SumKeywords, MaxKeywords, MinKeywords}

ExtractorInit ==
    /\ pc = "idle"
    /\ text \in ExtractorTexts
    /\ database = ""
    /\ table = ""
    /\ columnNames \in ColumnLists
    /\ sqlQuery = ""
    /\ error = JsUndefined
    /\ status = 0
    /\ dbConnections = {}
    /\ rWord = ""
    /\ rCols = <<>>
    /\ rOut = JsUndefined
    /\ rLog = <<>>
    /\ ExtractorIdle
    /\ FlightsIdle
    /\ RestIdle

ExtractWhere ==
    /\ xFn = ""
    /\ xFn' = "extractWhereConditions"
    /\ xOut' = extractWhereConditions(text, columnNames)
    /\ UNCHANGED <<xKeywords, convertVars, resolverVars, flightVars, restVars>>

ExtractColumns ==
    /\ xFn = ""
    /\ xFn' = "extractColumns"
    /\ xOut' = JsStr(extractColumns(text, columnNames))
    /\ UNCHANGED <<xKeywords, convertVars, resolverVars, flightVars, restVars>>

ExtractOrderBy ==
    /\ xFn = ""
    /\ xFn' = "extractOrderBy"
    /\ xOut' = JsStr(extractOrderBy(text, columnNames))
    /\ UNCHANGED <<xKeywords, convertVars, resolverVars, flightVars, restVars>>

ExtractAggregate ==
    /\ xFn = ""
    /\ xFn' = "extractColumnForAggregate"
    /\ \E keywords \in AggregateKeywords :
          /\ xKeywords' = keywords
          /\ xOut' = extractColumnForAggregate(text, columnNames, keywords)
    /\ UNCHANGED <<convertVars, resolverVars, flightVars, restVars>>

ExtractLimit ==
    /\ xFn = ""
    /\ xFn' = "extractLimit"
    /\ xOut' = JsStr(extractLimit(text))
    /\ UNCHANGED <<xKeywords, convertVars, resolverVars, flightVars, restVars>>

ExtractorNext ==
    \/ ExtractWhere
    \/ ExtractColumns
    \/ ExtractOrderBy
    \/ ExtractAggregate
    \/ ExtractLimit

ExtractorSpec == ExtractorInit /\ [][ExtractorNext]_vars

(***************************************************************************)
(* Several /convert requests in flight at once: each request is a call of  *)
(* the handler and of its two callbacks, with its own text, table,         *)
(* columnNames, sqlQuery and error; the callbacks of different requests    *)
(* run in any order, each one to its end.                                  *)
(***************************************************************************)
\* at most MaxFlights requests are in flight
MaxFlights == 2

FlightPhrases == {"age over 20", "average price"}
FlightColumnLists == {<<"id", "name", "age">>, <<"id", "price", "qty">>}

IdleFlight ==
    [pc |-> "idle", text |-> "", table |-> "", columnNames |-> <<>>, sqlQuery |-> "",
     error |-> JsUndefined, status |-> 0]

FlightInit ==
    /\ pc = "idle"
    /\ text = ""
    /\ database = ""
    /\ table = ""
    /\ columnNames = <<>>
    /\ sqlQuery = ""
    /\ error = JsUndefined
    /\ status = 0
    /\ dbConnections = {}
    /\ rWord = ""
    /\ rCols = <<>>
    /\ rOut = JsUndefined
    /\ rLog = <<>>
    /\ ExtractorIdle
    /\ flights = [i \in 1..MaxFlights |-> IdleFlight]
    /\ RestIdle

\* a translation that reads the phrase from a place all requests share, which
\* holds the phrase of the request with the highest number that has arrived
translateShared(fl, i, cols) ==
    generateSQLFromText(
        fl[CHOOSE j \in DOMAIN fl :
              fl[j].pc # "idle" /\ \A h \in DOMAIN fl : fl[h].pc # "idle" => h <= j].text,
        fl[i].table, cols)

\* "generateSQLFromText(text, table, columnNames, columnTypes)" in the PRAGMA
\* callback of request i: the arguments are the callback's own
translate(fl, i, cols) == generateSQLFromText(fl[i].text, fl[i].table, cols)

\* the destination of request i after the translation r
afterTranslation(f, cols, r) ==
    [f EXCEPT !.columnNames = cols, !.sqlQuery = r.sqlQuery, !.error = r.error,
              !.status = IF Truthy(r.error) THEN 400 ELSE 0,
              !.pc = IF Truthy(r.error) THEN "done" ELSE "exec"]

FlightRequest(i) ==
    /\ flights[i].pc = "idle"
    /\ \E t \in FlightPhrases \cup {""} :
          IF t = ""
          THEN /\ flights' = [flights EXCEPT ![i].status = 400, ![i].pc = "done"]
               /\ UNCHANGED dbConnections
          ELSE /\ flights' = [flights EXCEPT ![i].text = t, ![i].table = "users",
                                             ![i].pc = "pragma"]
               /\ dbConnections' = getDBConnection("mydb")
    /\ UNCHANGED <<pc, text, database, table, columnNames, sqlQuery, error, status,
                   resolverVars, extractorVars, restVars>>

FlightPragmaError(i) ==
    /\ flights[i].pc = "pragma"
    /\ flights' = [flights EXCEPT ![i].status = 500, ![i].pc = "done"]
    /\ UNCHANGED <<convertVars, resolverVars, extractorVars, restVars>>

FlightPragmaCallback(i) ==
    /\ flights[i].pc = "pragma"
    /\ \E cols \in FlightColumnLists :
          flights' = [flights EXCEPT
                         ![i] = afterTranslation(flights[i], cols, translate(flights, i, cols))]
    /\ UNCHANGED <<convertVars, resolverVars, extractorVars, restVars>>

FlightExecError(i) ==
    /\ flights[i].pc = "exec"
    /\ flights' = [flights EXCEPT ![i].status = 500, ![i].pc = "done"]
    /\ UNCHANGED <<convertVars, resolverVars, extractorVars, restVars>>

FlightExecCallback(i) ==
    /\ flights[i].pc = "exec"
    /\ flights' = [flights EXCEPT ![i].status = 200, ![i].pc = "done"]
    /\ UNCHANGED <<convertVars, resolverVars, extractorVars, restVars>>

FlightNext ==
    \/ \E i \in 1..MaxFlights : FlightRequest(i)
    \/ \E i \in 1..MaxFlights : FlightPragmaError(i)
    \/ \E i \in 1..MaxFlights : FlightPragmaCallback(i)
    \/ \E i \in 1..MaxFlights : FlightExecError(i)
    \/ \E i \in 1..MaxFlights : FlightExecCallback(i)

FlightSpec == FlightInit /\ [][FlightNext]_vars

(***************************************************************************)
(* Properties of the column resolver (under ResolverSpec).                 *)
(***************************************************************************)
Resolved == rOut # JsUndefined

\* the least index of a non-empty set of indices
Least(I) == CHOOSE i \in I : \A j \in I : i <= j

\* the indices of the columns equal to the word, containing it, contained
\* in it, letters compared in lower case
ExactTier == {i \in 1..Len(rCols) : toLowerCase(rCols[i]) = toLowerCase(rWord)}
ContainsTier ==
    {i \in 1..Len(rCols) : includes(toLowerCase(rCols[i]), toLowerCase(rWord))}
ContainedTier ==
    {i \in 1..Len(rCols) : includes(toLowerCase(rWord), toLowerCase(rCols[i]))}

\* C10: findBestColumnMatch(word, columns) returns the first column equal to
\* the word without regard to case; else the first column whose lower-cased
\* name contains the lower-cased word; else the first column whose lower-cased
\* name is contained in the lower-cased word; else null.  So an exact match
\* wins over a substring match standing earlier in the list, and the result is
\* null or an element of the list.
C10_ThreeTiers ==
    Resolved =>
       /\ rOut = IF ExactTier # {} THEN JsStr(rCols[Least(ExactTier)])
                 ELSE IF ContainsTier # {} THEN JsStr(rCols[Least(ContainsTier)])
                 ELSE IF ContainedTier # {} THEN JsStr(rCols[Least(ContainedTier)])
                 ELSE JsNull
       /\ rOut = JsNull \/ \E i \in 1..Len(rCols) : rOut = JsStr(rCols[i])

\* an exact match was returned although a column that only contains the word
\* stands before it
C10_Witness ==
    /\ Resolved
    /\ ExactTier # {}
    /\ \E i \in ContainsTier : i < Least(ExactTier)
    /\ rOut = JsStr(rCols[Least(ExactTier)])

TemplateMatch(k) == match(text, conditionPatterns[k])

\* the word that template k resolves: its first capture, or for the named
\* template the column name or title
TemplateColumn(k) ==
    IF k = 6
    THEN JsOr(findBestColumnMatch("name", columnNames),
              findBestColumnMatch("title", columnNames))
    ELSE findBestColumnMatch(TemplateMatch(k).caps[1].v, columnNames)

\* template k matches the text and resolves to a column
Contributes(k) == TemplateMatch(k).found /\ Truthy(TemplateColumn(k))

\* the templates that contribute, in template order
Contributing == SelectSeq(<<1, 2, 3, 4, 5, 6>>, Contributes)

\* the condition contributed by template k
Contribution(k) == conditionHandler(k, TemplateMatch(k), columnNames).v

\* C12: extractWhereConditions takes its six templates in their order: each
\* template that matches the text and resolves to a column contributes one
\* condition, which starts with that column; the others contribute nothing;
\* the result is the contributed conditions joined with " AND " in template
\* order, and null when no template contributes.  So "items age under 30 id
\* over 5" gives id > 5 AND age < 30, the greater-than template first.
C12_TemplateOrder ==
    xFn = "extractWhereConditions" =>
       /\ Contributing = <<>> => xOut = JsNull
       /\ Contributing # <<>> =>
             xOut = JsStr(join([i \in 1..Len(Contributing) |->
                                   Contribution(Contributing[i])], " AND "))
       /\ \A i \in 1..Len(Contributing) :
             /\ \E c \in 1..Len(columnNames) :
                   TemplateColumn(Contributing[i]) = JsStr(columnNames[c])
             /\ startsWith(Contribution(Contributing[i]),
                           TemplateColumn(Contributing[i]).v \o " ")
       /\ text = "items age under 30 id over 5" /\ columnNames = <<"id", "name", "age">> =>
             xOut = JsStr("id > 5 AND age < 30")
       /\ text = "zzz over 5" => xOut = JsNull

\* two templates contributed, the later one for the earlier part of the text
C12_Witness ==
    /\ xFn = "extractWhereConditions"
    /\ text = "items age under 30 id over 5"
    /\ Contributing = <<1, 2>>
    /\ TemplateMatch(2).index < TemplateMatch(1).index
    /\ xOut = JsStr("id > 5 AND age < 30")

\* the literal value of the match of template k, and the operator it is
\* compared with
TemplateValue(k) ==
    CASE k \in {1, 2, 3, 4} -> TemplateMatch(k).caps[2].v
      [] k = 5 -> TemplateMatch(k).caps[3].v
      [] k = 6 -> TemplateMatch(k).caps[1].v

TemplateOperator(k) ==
    CASE k = 1 -> ">"
      [] k = 2 -> "<"
      [] k \in {3, 6} -> "="
      [] k = 4 -> "LIKE"
      [] k = 5 -> TemplateMatch(k).caps[2].v

\* the literal as the claim has it: bare when numeric, else in single quotes
\* (between % signs for LIKE)
LiteralOf(k, v) ==
    IF ~isNaN(v) THEN v
    ELSE IF k = 4 THEN "'%" \o v \o "%'" ELSE "'" \o v \o "'"

\* C13: in every condition emitted by extractWhereConditions, for each of the
\* six templates, a numeric literal value stands bare and a non-numeric
\* literal value stands in single quotes.
C13_LiteralQuoting ==
    xFn = "extractWhereConditions" =>
       \A k \in 1..Len(conditionPatterns) :
          Contributes(k) =>
             includes(" AND " \o xOut.v \o " AND ",
                      " AND " \o TemplateColumn(k).v \o " " \o TemplateOperator(k) \o " "
                      \o LiteralOf(k, TemplateValue(k)) \o " AND ")

\* C16: extractColumnForAggregate never returns null or undefined: for every
\* text, keyword list and column list, the empty list included, it returns a
\* column of the list: the resolved word after the keyword, else the first
\* column that holds one of id, age, salary, price, amount, else the first
\* column.
C16_AlwaysNamesColumn ==
    xFn = "extractColumnForAggregate" =>
       /\ xOut.k = "string"
       /\ \E c \in 1..Len(columnNames) : xOut.v = columnNames[c]
       /\ xOut = IF Truthy(aggregateKeywordColumn(text, columnNames, xKeywords, 1))
                 THEN aggregateKeywordColumn(text, columnNames, xKeywords, 1)
                 ELSE IF numericColumns(columnNames) # <<>>
                      THEN JsStr(numericColumns(columnNames)[1])
                      ELSE JsStr(columnNames[1])

\* the integer that stands in s after the white space that starts at j, the
\* empty string when no white space or no digit is there
IntegerAfter(s, j) ==
    IF runEnd(S, s, j) > j
    THEN SubSeq(s, runEnd(S, s, j), runEnd(D, s, runEnd(S, s, j)) - 1)
    ELSE ""

\* the integer after the keyword limit, first or top that starts at position
\* i of the text, the empty string when there is none
LimitAt(i) ==
    IF \E kw \in {"limit", "first", "top"} :
          /\ i + Len(kw) - 1 <= Len(text)
          /\ SubSeq(canonicalize(text), i, i + Len(kw) - 1) = kw
          /\ IntegerAfter(text, i + Len(kw)) # ""
    THEN IntegerAfter(text, i + Len(CHOOSE kw \in {"limit", "first", "top"} :
                                      /\ i + Len(kw) - 1 <= Len(text)
                                      /\ SubSeq(canonicalize(text), i, i + Len(kw) - 1) = kw))
    ELSE ""

LimitPositions == {i \in 1..Len(text) : LimitAt(i) # ""}

\* C17: extractLimit returns, as a string, the integer that follows the first
\* limit, first or top keyword of the text that an integer follows, and "100"
\* when no such keyword is followed by an integer; "top 5 users" gives "5".
C17_LimitValue ==
    xFn = "extractLimit" =>
       /\ xOut = JsStr(IF LimitPositions = {} THEN "100"
                       ELSE LimitAt(Least(LimitPositions)))
       /\ text = "top 5 users" => xOut = JsStr("5")
       /\ text = "First  10 then top 3" => xOut = JsStr("10")
       /\ text = "top users limit 7" => xOut = JsStr("7")
       /\ text \in {"limit", "age over 20", ""} => xOut = JsStr("100")

C17_Witness ==
    /\ xFn = "extractLimit"
    /\ text = "top 5 users"
    /\ LimitPositions = {1}
    /\ xOut = JsStr("5")

\* the pieces of s between its commas
RECURSIVE CommaPieces(_)
CommaPieces(s) ==
    IF indexOfAny(s, {","}, 1) = 0 THEN <<s>>
    ELSE <<SubSeq(s, 1, indexOfAny(s, {","}, 1) - 1)>>
         \o CommaPieces(SubSeq(s, indexOfAny(s, {","}, 1) + 1, Len(s)))

\* the token resolves to a column
Resolves(token) == Truthy(findBestColumnMatch(trim(token), columnNames))

\* the tokens of the text that resolve, in their order
ResolvingTokens == SelectSeq(CommaPieces(text), Resolves)

\* C18: extractColumns splits the fragment at its commas, resolves each token
\* with findBestColumnMatch and returns the resolved columns joined with ", "
\* in token order, the tokens that do not resolve being dropped; it returns *
\* exactly when no token resolves or the fragment is empty; so every name of
\* the list returned is a column of the table.
C18_ProjectionList ==
    xFn = "extractColumns" =>
       /\ xOut = JsStr(IF text = "" \/ ResolvingTokens = <<>> THEN "*"
                       ELSE join([i \in 1..Len(ResolvingTokens) |->
                                    findBestColumnMatch(trim(ResolvingTokens[i]),
                                                        columnNames).v], ", "))
       /\ xOut.v = "*" \/
             \A i \in 1..Len(CommaPieces(xOut.v)) :
                \E c \in 1..Len(columnNames) :
                   trim(CommaPieces(xOut.v)[i]) = columnNames[c]
       /\ text = "zzz, AGE " /\ columnNames = <<"id", "name", "age">> =>
             xOut = JsStr("age")
       /\ text = "name, AGE " /\ columnNames = <<"id", "name", "age">> =>
             xOut = JsStr("name, age")

\* of two tokens the first was dropped and the second resolved
C18_Witness ==
    /\ xFn = "extractColumns"
    /\ text = "zzz, AGE "
    /\ columnNames = <<"id", "name", "age">>
    /\ Len(CommaPieces(text)) = 2
    /\ xOut = JsStr("age")

(***************************************************************************)
(* Properties of the translator behind POST /convert (under Spec).         *)
(***************************************************************************)
\* generateSQLFromText has returned for the request and the callback of
\* db.all(sqlQuery) has not run yet
Translated == sqlQuery # "" /\ status \notin {200, 500}

lowerText == trim(toLowerCase(text))

\* pattern.pattern.test(lowerText) of every entry of patterns, for every
\* phrase a request may carry
PatternTests ==
    [t \in Phrases |->
        [k \in 1..Len(patterns) |-> test(patterns[k], trim(toLowerCase(t)))]]

\* the pattern of entry k matches the phrase of the request
Matches(k) == PatternTests[text][k]

\* no entry of patterns has a pattern that matches the phrase
NoRuleMatches == \A k \in 1..Len(patterns) : ~Matches(k)

\* the earliest entry from the k-th on whose pattern matches the phrase, 0
\* when there is none
RECURSIVE FirstMatching(_)
FirstMatching(k) ==
    IF k > Len(patterns) THEN 0
    ELSE IF Matches(k) THEN k ELSE FirstMatching(k + 1)

SelectedRule == FirstMatching(1)

\* entry k matches the phrase and its builder throws
BuilderThrows(k) ==
    Matches(k) /\ patternSql(k, text, table, columnNames).threw

\* k is an entry, and its builder throws
Throws(k) == k # 0 /\ patternSql(k, text, table, columnNames).threw

\* the earliest entry from the k-th on whose pattern matches the phrase and
\* whose builder returns, 0 when there is none
RECURSIVE FirstBuilding(_)
FirstBuilding(k) ==
    IF k > Len(patterns) THEN 0
    ELSE IF Matches(k)
            /\ ~patternSql(k, text, table, columnNames).threw
         THEN k ELSE FirstBuilding(k + 1)

\* the rule that built the statement
BuiltBy == FirstBuilding(1)

AggregateRules == {1, 2, 8, 9, 10, 11}

\* the statement is a COUNT, AVG, SUM, MAX or MIN query
IsAggregate(sql) ==
    \E f \in {"COUNT(", "AVG(", "SUM(", "MAX(", "MIN("} : startsWith(sql, "SELECT " \o f)

\* the statement ends with a LIMIT clause
EndsWithLimit(sql) ==
    \E i \in 1..(Len(sql) - 7) :
       /\ SubSeq(sql, i, i + 6) = " LIMIT "
       /\ isDigits(SubSeq(sql, i + 7, Len(sql)))

\* C1: the SQL returned is the one of the earliest entry of patterns whose
\* pattern matches the lower-cased, trimmed phrase, and a phrase with
\* "show me all" and no count/how many keyword on table T gives exactly
\* SELECT * FROM T LIMIT 100, whatever the columns.
C1_FirstMatchShowAll ==
    Translated =>
       /\ SelectedRule # 0 =>
             sqlQuery = addSafetyLimit(patternSql(SelectedRule, text, table,
                                                  columnNames).sql)
       /\ test(SelectAllPattern, lowerText) /\ ~test(CountPattern, lowerText) =>
             sqlQuery = "SELECT * FROM " \o table \o " LIMIT 100"

\* C2: every statement returned that is not a COUNT/AVG/SUM/MAX/MIN query
\* ends with a LIMIT clause.
C2_AlwaysLimited ==
    Translated => IsAggregate(sqlQuery) \/ EndsWithLimit(sqlQuery)

\* no entry of patterns matches the phrase and no condition is extracted
NotUnderstood ==
    /\ sqlQuery # ""
    /\ NoRuleMatches
    /\ extractWhereConditions(text, columnNames) = JsNull

C4_NeverFails ==
    /\ status = 400 => text = "" \/ database = "" \/ table = ""
    /\ pc = "exec" => error = JsUndefined /\ startsWith(sqlQuery, "SELECT ")
    /\ status = 200 => error = JsUndefined /\ startsWith(sqlQuery, "SELECT ")

\* the SQL of a phrase that was not understood, on a table without columns,
\* has been run and answered with 200
C4_Witness == status = 200 /\ columnNames = <<>> /\ NotUnderstood

\* C5: "show me all <table> where <column> greater than 20" gives
\* SELECT * FROM <table> WHERE <column> > 20 LIMIT 100.
C5_ShowAllWhere ==
    \A i \in 1..Len(columnNames) :
       Translated
       /\ text = "show me all " \o table \o " where " \o columnNames[i]
                 \o " greater than 20" =>
          sqlQuery = "SELECT * FROM " \o table \o " WHERE " \o columnNames[i]
                     \o " > 20 LIMIT 100"

\* C6: "Show me products cheaper than 500" on table products with a price
\* column gives SELECT * FROM products WHERE price < 500 LIMIT 100.
C6_CheaperThan ==
    Translated /\ text = "Show me products cheaper than 500" /\ table = "products"
    /\ (\E i \in 1..Len(columnNames) : columnNames[i] = "price") =>
       sqlQuery = "SELECT * FROM products WHERE price < 500 LIMIT 100"

\* the condition patterns other than the k-th contribute no condition
OnlyCondition(k) ==
    \A j \in 1..Len(conditionPatterns) :
       j # k =>
          LET m == match(text, conditionPatterns[j]) IN
          ~m.found \/ ~Truthy(conditionHandler(j, m, columnNames))

\* the "<word> greater than <number>" comparison of the phrase
GreaterMatch == match(text, GreaterRegex)

\* the phrase matches no rule and holds one comparison, a greater-than one,
\* whose word resolves to a column
OneGreaterThan ==
    /\ Translated
    /\ NoRuleMatches
    /\ GreaterMatch.found
    /\ \E i \in 1..Len(columnNames) :
          JsStr(columnNames[i]) = findBestColumnMatch(GreaterMatch.caps[1].v, columnNames)
    /\ OnlyCondition(1)

\* C7: a phrase that matches no rule and holds one "<word> greater than
\* <number>" comparison whose word resolves to a column gives exactly
\* SELECT * FROM <table> WHERE <column> > <number> LIMIT 100, without warning;
\* "users where age greater than 20" on users(id, name, age) gives
\* SELECT * FROM users WHERE age > 20 LIMIT 100.
C7_GreaterThanFallback ==
    /\ OneGreaterThan =>
          /\ sqlQuery = "SELECT * FROM " \o table \o " WHERE "
                        \o findBestColumnMatch(GreaterMatch.caps[1].v, columnNames).v
                        \o " > " \o GreaterMatch.caps[2].v \o " LIMIT 100"
          /\ error = JsUndefined
    /\ Translated /\ text = "users where age greater than 20" /\ table = "users"
       /\ columnNames = <<"id", "name", "age">> =>
          sqlQuery = "SELECT * FROM users WHERE age > 20 LIMIT 100"

C7_Witness ==
    /\ OneGreaterThan
    /\ text = "users where age greater than 20"
    /\ table = "users"
    /\ columnNames = <<"id", "name", "age">>

\* the aggregate statement of function fn and alias prefix over column c
AggregateSql(fn, alias, c) ==
    "SELECT " \o fn \o "(" \o c \o ") as " \o alias \o "_" \o c \o " FROM " \o table

\* what the aggregated column may be: a column of the table, or undefined
\* when the table has none
AggregateColumns ==
    IF columnNames = <<>> THEN {"undefined"}
    ELSE {columnNames[i] : i \in 1..Len(columnNames)}

\* C8: when the selected rule is one of the count/avg/sum/max/min rules the
\* SQL returned is exactly the aggregate statement over the table, with no
\* LIMIT appended; "average price" on table users with columns id, price, qty
\* gives SELECT AVG(price) as average_price FROM users.
C8_AggregateExempt ==
    /\ Translated /\ IsAggregate(sqlQuery) =>
          /\ ~includes(sqlQuery, "LIMIT")
          /\ \/ sqlQuery = "SELECT COUNT(*) as count FROM " \o table
             \/ \E c \in AggregateColumns :
                   sqlQuery \in {AggregateSql("AVG", "average", c),
                                 AggregateSql("SUM", "total", c),
                                 AggregateSql("MAX", "max", c),
                                 AggregateSql("MIN", "min", c)}
    /\ Translated /\ ~IsAggregate(sqlQuery) => SelectedRule \notin AggregateRules
    /\ Translated /\ text = "average price" /\ table = "users"
       /\ columnNames = <<"id", "price", "qty">> =>
          sqlQuery = "SELECT AVG(price) as average_price FROM users"

C8_Witness ==
    /\ Translated
    /\ text = "average price"
    /\ table = "users"
    /\ columnNames = <<"id", "price", "qty">>
    /\ SelectedRule = 8

\* the rules with a builder that does not write a LIMIT clause itself
UnlimitedRules == 1..11

\* the statement has a WHERE clause that names the column
WhereNames(sql, column) == includes(sql, " WHERE " \o column \o " ")

\* C9 as stated: a column named count inside the WHERE clause of a statement
\* that is no aggregate suppresses the appended LIMIT 100: such a statement,
\* built by a rule that leaves the LIMIT to the safety check, does not end
\* with LIMIT 100.
C9_CountSuppresses ==
    Translated /\ ~IsAggregate(sqlQuery) /\ WhereNames(sqlQuery, "count")
    /\ BuiltBy \in UnlimitedRules =>
       ~endsWith(sqlQuery, " LIMIT 100")

\* the statement without its final LIMIT clause
Body(sql) ==
    IF EndsWithLimit(sql)
    THEN SubSeq(sql, 1, (CHOOSE i \in 1..(Len(sql) - 7) :
                           /\ SubSeq(sql, i, i + 6) = " LIMIT "
                           /\ isDigits(SubSeq(sql, i + 7, Len(sql)))) - 1)
    ELSE sql

\* C9 amended: the safety check is a substring check for limit, count(, avg(,
\* sum(, max( and min(.  A column whose name contains limit inside the WHERE
\* clause of a statement built by one of the rules before the limit rule
\* suppresses the appended LIMIT 100; a column named count does not: a
\* statement, no aggregate, that names count in its WHERE clause and holds
\* the text limit nowhere else ends with a LIMIT clause.
C9_LimitSuppresses ==
    /\ Translated /\ ~IsAggregate(sqlQuery) /\ WhereNames(sqlQuery, "limit_val")
       /\ BuiltBy \in UnlimitedRules =>
          ~EndsWithLimit(sqlQuery)
    /\ Translated /\ ~IsAggregate(sqlQuery) /\ WhereNames(sqlQuery, "count")
       /\ ~includes(toLowerCase(Body(sqlQuery)), "limit") =>
          EndsWithLimit(sqlQuery)

\* a rule has built a statement whose WHERE clause names limit_val, returned
\* without a LIMIT
C9_Witness ==
    /\ Translated
    /\ WhereNames(sqlQuery, "limit_val")
    /\ ~EndsWithLimit(sqlQuery)
    /\ SelectedRule = 5

\* C14: a column that does not resolve is left out and never reaches the
\* output: when no condition can be extracted from the phrase, the SQL
\* returned holds no WHERE clause at all, whichever rule built it.
C14_NoEmptyWhere ==
    Translated /\ extractWhereConditions(text, columnNames) = JsNull =>
       ~includes(sqlQuery, "WHERE")

\* the "order by" clause of the phrase
OrderMatch == match(text, OrderByRegex)

\* the phrase holds a numeric comparison on a column that resolves and an
\* "order by" with a column that resolves
ComparisonAndOrder ==
    /\ Translated
    /\ \E k \in {1, 2} :
          /\ match(text, conditionPatterns[k]).found
          /\ Truthy(conditionHandler(k, match(text, conditionPatterns[k]), columnNames))
    /\ OrderMatch.found
    /\ Truthy(findBestColumnMatch(OrderMatch.caps[1].v, columnNames))

\* C15: for every phrase with a numeric comparison on a column that resolves
\* and an "order by" with a column that resolves, the SQL returned holds both,
\* the condition first: WHERE <cond> ORDER BY <col> <DIR>, then the LIMIT;
\* <DIR> is ASC when the phrase gives no direction.
C15_WhereThenOrderBy ==
    ComparisonAndOrder =>
       /\ includes(sqlQuery,
                   " WHERE " \o extractWhereConditions(text, columnNames).v \o " ORDER BY "
                   \o findBestColumnMatch(OrderMatch.caps[1].v, columnNames).v \o " "
                   \o toUpperCase(JsOr(OrderMatch.caps[2], JsStr("asc")).v) \o " LIMIT ")
       /\ OrderMatch.caps[2] = JsUndefined => includes(sqlQuery, " ASC LIMIT ")

\* C19: when the builder of the selected entry throws, generateSQLFromText
\* neither fails nor returns there: it goes on with the next entries in
\* declaration order and at last with the fallback, so the result is that of
\* the first later entry that matches and whose builder returns, and the SQL
\* is run.  "get only K" (Kelvin sign) gives the fallback statement, and with
\* "top 5" after it the statement of the limit entry.
C19_ContinuesAfterThrow ==
    Translated /\ Throws(SelectedRule) =>
       /\ error = JsUndefined
       /\ pc = "exec"
       /\ sqlQuery = IF BuiltBy = 0 THEN fallback(text, table, columnNames).sqlQuery
                     ELSE addSafetyLimit(patternSql(BuiltBy, text, table, columnNames).sql)
       /\ text = "get only " \o KelvinSign =>
             sqlQuery = "SELECT * FROM " \o table \o " LIMIT 100"
       /\ text = "get only " \o KelvinSign \o " top 5" =>
             sqlQuery = "SELECT * FROM " \o table \o "  LIMIT 5"

\* the builder of the selected entry threw and a later entry built the SQL
C19_Witness ==
    /\ Translated
    /\ text = "get only " \o KelvinSign \o " top 5"
    /\ SelectedRule = 6
    /\ BuilderThrows(6)
    /\ BuiltBy = 12
    /\ sqlQuery = "SELECT * FROM users  LIMIT 5"

MaxRows == 2

UsersColumns == <<"id", "name", "age">>

\* the database file: whether users exists, its columns, its number of rows,
\* and the changes count of the connection (sqlite3_changes)
NewSqlite == [exists |-> TRUE, columns |-> UsersColumns, rows |-> 0, changes |-> 0]

\* the statements a client posts, with what each is to SQLite
Statements ==
    {[sql |-> "", op |-> "none"],
     [sql |-> "  SELECT * FROM users", op |-> "select"],
     [sql |-> "select * from ghost", op |-> "ghost"],
     [sql |-> "Selected rows", op |-> "syntax"],
     [sql |-> "INSERT INTO users (name) VALUES ('a')", op |-> "insert"],
     [sql |-> "\n\tupdate users set name = 'b'", op |-> "update"],
     [sql |-> "DELETE FROM users", op |-> "delete"],
     [sql |-> "DROP TABLE users", op |-> "drop"],
     [sql |-> "ALTER TABLE users DROP COLUMN age", op |-> "dropcol"],
     [sql |-> "CREATE TABLE users (id, name, age)", op |-> "create"],
     [sql |-> "WITH t AS (SELECT 1) SELECT * FROM t", op |-> "with"]}

\* the rows of users, by rowid
rowsOf(db) == [i \in 1..db.rows |-> i]

Failed(db) == [err |-> TRUE, rows |-> <<>>, db |-> db]
Stepped(db, rows) == [err |-> FALSE, rows |-> rows, db |-> db]

\* SQLite running a statement on the file.  accepted is the outcome of the
\* constraints (NOT NULL, UNIQUE) for a row to insert.
run(op, db, accepted) ==
    CASE op = "select" -> IF db.exists THEN Stepped(db, rowsOf(db)) ELSE Failed(db)
      [] op = "with" -> Stepped(db, <<1>>)
      [] op = "insert" ->
           IF db.exists /\ accepted
           THEN Stepped([db EXCEPT !.rows = @ + 1, !.changes = 1], <<>>)
           ELSE Failed(db)
      [] op = "update" ->
           IF db.exists THEN Stepped([db EXCEPT !.changes = db.rows], <<>>) ELSE Failed(db)
      [] op = "delete" ->
           IF db.exists
           THEN Stepped([db EXCEPT !.rows = 0, !.changes = db.rows], <<>>)
           ELSE Failed(db)
      [] op = "drop" ->
           IF db.exists
           THEN Stepped([db EXCEPT !.exists = FALSE, !.columns = <<>>, !.rows = 0], <<>>)
           ELSE Failed(db)
      [] op = "dropcol" ->
           IF db.exists /\ db.columns = UsersColumns
           THEN Stepped([db EXCEPT !.columns = <<"id", "name">>], <<>>)
           ELSE Failed(db)
      [] op = "create" ->
           IF db.exists THEN Failed(db)
           ELSE Stepped([db EXCEPT !.exists = TRUE, !.columns = UsersColumns], <<>>)
      [] OTHER -> Failed(db)

\* the outcomes the constraints may give: a full table takes no further row
Acceptances(db) == IF db.rows < MaxRows THEN BOOLEAN ELSE {FALSE}

\* PRAGMA table_info(<table>): the columns, none for a table that is not there
tableInfo(db, tbl) == IF tbl = "users" /\ db.exists THEN db.columns ELSE <<>>

IdleQuery == [pc |-> "idle", database |-> "", st |-> [sql |-> "", op |-> "none"],
              calls |-> <<>>, res |-> <<>>]
IdleInsert == [pc |-> "idle", table |-> "", data |-> JsUndefined, columnNames |-> <<>>,
               calls |-> <<>>, inserted |-> FALSE, res |-> <<>>]

SqlInit ==
    /\ TranslatorIdle
    /\ dbConnections = {}
    /\ sqlite = NewSqlite
    /\ qry = IdleQuery
    /\ ins = IdleInsert
    /\ StoreIdle /\ ShutdownIdle /\ FormIdle /\ UiIdle

sqlFrame == <<translatorVars, storeVars, shutdownVars, formVars, uiVars>>

\* a check that takes the statement as it stands, untrimmed and in its case
isSelectQueryAsGiven(sql) == startsWith(sql, "select")

\* sql.trim().toLowerCase().startsWith('select')
isSelectQuery(sql) == startsWith(toLowerCase(trim(sql)), "select")

\* app.post('/query') up to db.all or db.run
QueryRequest ==
    /\ qry.pc = "idle"
    /\ \E d \in {"mydb", ""}, st \in Statements :
          IF d = "" \/ st.sql = ""
          THEN /\ qry' = [qry EXCEPT !.pc = "done", !.database = d, !.st = st,
                             !.res = [status |-> 400,
                                      error |-> "Database and SQL query are required"]]
               /\ UNCHANGED dbConnections
          ELSE /\ dbConnections' = getDBConnection(d)
               /\ qry' = [qry EXCEPT
                             !.pc = IF isSelectQuery(st.sql) THEN "all" ELSE "run",
                             !.database = d, !.st = st,
                             !.calls = <<IF isSelectQuery(st.sql) THEN "all" ELSE "run">>]
    /\ UNCHANGED <<sqlite, ins, sqlFrame>>

\* the callback of db.all(sql)
QueryAllCallback ==
    /\ qry.pc = "all"
    /\ \E accepted \in Acceptances(sqlite) :
          \E r \in {run(qry.st.op, sqlite, accepted)} :
             /\ sqlite' = r.db
             /\ qry' = [qry EXCEPT !.pc = "done",
                           !.res = IF r.err
                                   THEN [status |-> 500, error |-> "SQL Error"]
                                   ELSE [status |-> 200,
                                         message |-> "Query executed successfully",
                                         results |-> r.rows,
                                         row_count |-> Len(r.rows)]]
    /\ UNCHANGED <<dbConnections, ins, sqlFrame>>

\* the callback of db.run(sql)
QueryRunCallback ==
    /\ qry.pc = "run"
    /\ \E accepted \in Acceptances(sqlite) :
          \E r \in {run(qry.st.op, sqlite, accepted)} :
             /\ sqlite' = r.db
             /\ qry' = [qry EXCEPT !.pc = "done",
                           !.res = IF r.err
                                   THEN [status |-> 500, error |-> "SQL Error"]
                                   ELSE [status |-> 200,
                                         message |-> "Query executed successfully",
                                         changes |-> r.db.changes]]
    /\ UNCHANGED <<dbConnections, ins, sqlFrame>>

\* the response is sent; the next POST /query may come
QueryDone ==
    /\ qry.pc = "done"
    /\ qry' = IdleQuery
    /\ UNCHANGED <<dbConnections, sqlite, ins, sqlFrame>>

\* req.body.data: missing, null, a string, an array, or an object with keys
JsObject(keys) == [k |-> "object", keys |-> keys]
DataBodies ==
    {JsUndefined, JsNull, JsStr("name"), JsObject(<<"0">>), JsObject(<<>>),
     JsObject(<<"name">>), JsObject(<<"name", "age">>), JsObject(<<"bogus">>),
     JsObject(<<"name", "bogus">>)}

\* providedColumns.filter(col => !columnNames.includes(col))
RECURSIVE filterInvalid(_, _)
filterInvalid(providedColumns, cols) ==
    IF providedColumns = <<>> THEN <<>>
    ELSE (IF \A i \in 1..Len(cols) : cols[i] # Head(providedColumns)
          THEN <<Head(providedColumns)>> ELSE <<>>)
         \o filterInvalid(Tail(providedColumns), cols)

\* a validation that lets every column through
invalidColumnsNone(providedColumns, cols) == <<>>

invalidColumns(providedColumns, cols) == filterInvalid(providedColumns, cols)

\* app.post('/data/:database/:table') up to db.all(PRAGMA table_info)
DataRequest ==
    /\ ins.pc = "idle"
    /\ \E tbl \in {"users", "ghost"}, data \in DataBodies :
          IF data.k # "object"
          THEN /\ ins' = [ins EXCEPT !.pc = "done", !.table = tbl, !.data = data,
                             !.res = [status |-> 400, error |-> "Data object is required"]]
               /\ UNCHANGED dbConnections
          ELSE /\ dbConnections' = getDBConnection("mydb")
               /\ ins' = [ins EXCEPT !.pc = "pragma", !.table = tbl, !.data = data,
                             !.calls = <<"PRAGMA">>]
    /\ UNCHANGED <<sqlite, qry, sqlFrame>>

\* the PRAGMA callback: validate the keys, then db.run(insertSQL)
DataPragmaCallback ==
    /\ ins.pc = "pragma"
    /\ \E cols \in {tableInfo(sqlite, ins.table)} :
          IF Len(invalidColumns(ins.data.keys, cols)) > 0
          THEN ins' = [ins EXCEPT !.pc = "done", !.columnNames = cols,
                          !.res = [status |-> 400,
                                   error |-> "Invalid columns: "
                                      \o join(invalidColumns(ins.data.keys, cols), ", ")]]
          ELSE ins' = [ins EXCEPT !.pc = "insert", !.columnNames = cols,
                          !.calls = Append(@, "INSERT")]
    /\ UNCHANGED <<dbConnections, sqlite, qry, sqlFrame>>

\* SQLite takes INSERT INTO <table> (<keys>) VALUES (?, ...) when the table is
\* there, the keys are columns of it, there is a key, and the constraints
\* accept the row
insertable(db, tbl, keys) ==
    /\ keys # <<>>
    /\ \A i \in 1..Len(keys) :
          \E j \in 1..Len(tableInfo(db, tbl)) : tableInfo(db, tbl)[j] = keys[i]

\* the callback of db.run(insertSQL, values)
DataInsertCallback ==
    /\ ins.pc = "insert"
    /\ \E accepted \in Acceptances(sqlite) :
          IF insertable(sqlite, ins.table, ins.data.keys) /\ accepted
          THEN /\ sqlite' = [sqlite EXCEPT !.rows = @ + 1, !.changes = 1]
               /\ ins' = [ins EXCEPT !.pc = "done", !.inserted = TRUE,
                             !.res = [status |-> 200,
                                      message |-> "Data inserted successfully",
                                      id |-> sqlite.rows + 1, changes |-> 1]]
          ELSE /\ sqlite' = sqlite
               /\ ins' = [ins EXCEPT !.pc = "done",
                             !.res = [status |-> 500, error |-> "Insert failed"]]
    /\ UNCHANGED <<dbConnections, qry, sqlFrame>>

\* the response is sent; the next POST /data may come
DataDone ==
    /\ ins.pc = "done"
    /\ ins' = IdleInsert
    /\ UNCHANGED <<dbConnections, sqlite, qry, sqlFrame>>

SqlNext ==
    \/ QueryRequest
    \/ QueryAllCallback
    \/ QueryRunCallback
    \/ QueryDone
    \/ DataRequest
    \/ DataPragmaCallback
    \/ DataInsertCallback
    \/ DataDone

SqlSpec == SqlInit /\ [][SqlNext]_vars

(***************************************************************************)
(* Properties of POST /query and POST /data (under SqlSpec).               *)
(***************************************************************************)
\* after its leading white space the statement begins with the letters of
\* select, each in either case
BeginsWithSelect(sql) ==
    \E i \in 1..Len(sql) :
       /\ \A j \in 1..(i - 1) : Ch(sql, j) \in SpaceChars
       /\ i + 5 <= Len(sql)
       /\ \A j \in 1..6 : Ch(sql, i + j - 1) \in {Ch("select", j), Ch("SELECT", j)}

\* C21: POST /query answers 400 and calls nothing on the database exactly when
\* database or sql is missing; a statement that, trimmed, starts with select
\* in either case is run with db.all and its response carries the result rows
\* and row_count, the number of those rows, and no changes; every other
\* statement is run with db.run and its response carries changes and no rows.
C21_QueryContract ==
    qry.pc = "done" =>
       /\ (qry.database = "" \/ qry.st.sql = "") <=> qry.res.status = 400
       /\ qry.res.status = 400 => qry.calls = <<>>
       /\ qry.res.status # 400 => Len(qry.calls) = 1 /\ qry.res.status \in {200, 500}
       /\ qry.res.status = 200 /\ BeginsWithSelect(qry.st.sql) =>
             /\ qry.calls = <<"all">>
             /\ DOMAIN qry.res = {"status", "message", "results", "row_count"}
             /\ qry.res.row_count = Len(qry.res.results)
       /\ qry.res.status = 200 /\ ~BeginsWithSelect(qry.st.sql) =>
             /\ qry.calls = <<"run">>
             /\ DOMAIN qry.res = {"status", "message", "changes"}
       /\ qry.res.status = 200 =>
             (qry.st.op \in {"select"} <=> "results" \in DOMAIN qry.res)

\* a SELECT written with leading blanks and in capitals has returned two rows
C21_Witness ==
    /\ qry.pc = "done"
    /\ qry.st.sql = "  SELECT * FROM users"
    /\ qry.res.status = 200
    /\ qry.res.results = <<1, 2>>
    /\ qry.res.row_count = 2

\* the keys of the data object that are no column of the schema read
UnknownKeys ==
    {i \in 1..Len(ins.data.keys) :
        \A j \in 1..Len(ins.columnNames) : ins.columnNames[j] # ins.data.keys[i]}

\* C26: POST /data validates the keys of data against the schema before it
\* inserts: with a key that is no column of the table (every key, when the
\* table does not exist) the response is 400 "Invalid columns: ..." naming
\* those keys, no INSERT is issued and no row is inserted; a row is inserted
\* only when every key is a column.
C26_ValidatesColumns ==
    ins.pc = "done" /\ ins.data.k = "object" =>
       /\ ins.columnNames = (IF ins.table = "users" THEN ins.columnNames ELSE <<>>)
       /\ UnknownKeys # {} =>
             /\ ins.res.status = 400
             /\ startsWith(ins.res.error, "Invalid columns: ")
             /\ ins.calls = <<"PRAGMA">>
             /\ ~ins.inserted
       /\ ins.inserted => UnknownKeys = {} /\ ins.res.status = 200
       /\ ins.table = "ghost" /\ ins.data.keys # <<>> => ins.res.status = 400
       /\ ins.data.keys = <<"name", "bogus">> /\ ins.columnNames = UsersColumns =>
             ins.res.error = "Invalid columns: bogus"

\* a request with a key that is no column has been refused, the table
\* holding the row of an earlier request
C26_Witness ==
    /\ ins.pc = "done"
    /\ ins.table = "users"
    /\ ins.data = JsObject(<<"name", "bogus">>)
    /\ ins.res.status = 400
    /\ ~ins.inserted
    /\ sqlite.rows = 1

(***************************************************************************)
(* Properties of the row limit of a translated phrase (under Spec).        *)
(***************************************************************************)
\* C28: a row limit requested in the phrase is honoured: when the phrase holds
\* limit N, first N or top N and the statement returned is no aggregate, the
\* statement ends with LIMIT N, N being the integer extractLimit finds, also
\* when the phrase holds an ordering or a filter keyword.
C28_LimitHonoured ==
    Translated /\ LimitPositions # {} /\ ~IsAggregate(sqlQuery) =>
       endsWith(sqlQuery, " LIMIT " \o LimitAt(Least(LimitPositions)))

(***************************************************************************)
(* The create-table form of the React application (App.js): newTable, the  *)
(* column editors and createTable.  Column indexes are counted from 1, the *)
(* source counts them from 0.                                              *)
(***************************************************************************)
\* the longest column list the form is driven to
MaxColumns == 2

\* useState({ name: '', description: '', columns: [{ name: 'id', ... }] })
InitialNewTable ==
    [name |-> "", description |-> "",
     columns |-> <<[name |-> "id", type |-> "INTEGER",
                    primaryKey |-> TRUE, nullable |-> FALSE]>>]

\* what the inputs of a column row can send: a name, an <option>, a checkbox
FieldValues(field) ==
    CASE field = "name" -> {"", "name"}
      [] field = "type" -> {"INTEGER", "TEXT"}
      [] OTHER -> BOOLEAN

ColumnFields == {"name", "type", "primaryKey", "nullable"}

\* [...newTable.columns, { name: '', type: 'TEXT', primaryKey: false, nullable: true }]
addedColumn(cols) ==
    Append(cols, [name |-> "", type |-> "TEXT", primaryKey |-> FALSE, nullable |-> TRUE])

\* newTable.columns.filter((_, i) => i !== index)
filterIndex(cols, index) ==
    [i \in 1..(Len(cols) - 1) |-> IF i < index THEN cols[i] ELSE cols[i + 1]]

\* an update that sets the field and leaves the other columns alone
updateColumnOnly(cols, index, field, value) ==
    [cols EXCEPT ![index] = [@ EXCEPT ![field] = value]]

\* updateColumn: newColumns[index][field] = value, and the other columns lose
\* primaryKey when the field is primaryKey and the value is true
updateColumn(cols, index, field, value) ==
    [i \in 1..Len(cols) |->
        IF i = index THEN [cols[i] EXCEPT ![field] = value]
        ELSE IF field = "primaryKey" /\ value = TRUE
             THEN [cols[i] EXCEPT !.primaryKey = FALSE]
             ELSE cols[i]]

\* what GET /databases and GET /tables/:database answer with
ServerDatabases == <<"shop", "school">>
ServerTables ==
    [dbName \in {"shop", "school"} |->
        IF dbName = "shop" THEN <<"users", "orders">> ELSE <<"students">>]

\* a request of fetchDatabases or fetchTables(dbName) on its way; requests
\* that are alike are counted once
DatabasesFetch == [kind |-> "databases", dbName |-> ""]
TablesFetch(dbName) == [kind |-> "tables", dbName |-> dbName]

appFrame == <<translatorVars, dbConnections, sqlVars, storeVars, shutdownVars>>

\* fetchDatabases: the response arrives, setDatabases(response.data.databases)
FetchDatabasesDone ==
    /\ DatabasesFetch \in fetches
    /\ databases' = ServerDatabases
    /\ fetches' = fetches \ {DatabasesFetch}
    /\ UNCHANGED <<tables, selectedDatabase, selectedTable, posted, formVars, appFrame>>

\* fetchTables(dbName): the response arrives, setTables(response.data.tables)
FetchTablesDone ==
    \E f \in fetches :
       /\ f.kind = "tables"
       /\ tables' = ServerTables[f.dbName]
       /\ fetches' = fetches \ {f}
       /\ UNCHANGED <<databases, selectedDatabase, selectedTable, posted, formVars, appFrame>>

\* either request fails: the catch block logs the error and sets nothing
FetchFailed ==
    \E f \in fetches :
       /\ fetches' = fetches \ {f}
       /\ UNCHANGED <<databases, tables, selectedDatabase, selectedTable, posted,
                      formVars, appFrame>>

FormInit ==
    /\ TranslatorIdle
    /\ dbConnections = {}
    /\ SqlIdle /\ StoreIdle /\ ShutdownIdle
    /\ newTable = InitialNewTable
    /\ posting = FALSE
    /\ databases = ServerDatabases /\ tables = ServerTables["shop"]
    /\ selectedDatabase = "shop"
    /\ selectedTable = "" /\ fetches = {} /\ posted = <<>>

formFrame == <<appFrame, uiVars>>

\* onChange of the table name input
SetTableName ==
    \E value \in {"", "users"} :
       /\ newTable' = [newTable EXCEPT !.name = value]
       /\ UNCHANGED <<posting, formFrame>>

\* + Add Column
AddColumn ==
    /\ Len(newTable.columns) < MaxColumns
    /\ newTable' = [newTable EXCEPT !.columns = addedColumn(@)]
    /\ UNCHANGED <<posting, formFrame>>

\* Remove: removeColumn(index) returns at once when one column is left
RemoveColumn ==
    \E index \in 1..Len(newTable.columns) :
       /\ Len(newTable.columns) # 1
       /\ newTable' = [newTable EXCEPT !.columns = filterIndex(@, index)]
       /\ UNCHANGED <<posting, formFrame>>

\* onChange of an input of a column row
UpdateColumn ==
    \E index \in 1..Len(newTable.columns), field \in ColumnFields :
       \E value \in FieldValues(field) :
          /\ newTable' = [newTable EXCEPT !.columns = updateColumn(@, index, field, value)]
          /\ UNCHANGED <<posting, formFrame>>

\* Create Table: the three alerts return early, otherwise the table is posted
CreateTable ==
    /\ ~posting
    /\ selectedDatabase # ""
    /\ trim(newTable.name) # ""
    /\ \A i \in 1..Len(newTable.columns) : trim(newTable.columns[i].name) # ""
    /\ posting' = TRUE
    /\ UNCHANGED <<newTable, formFrame>>

\* the POST /tables answered: the form is reset and fetchTables(selectedDatabase)
\* is sent
CreateTableResolved ==
    /\ posting
    /\ newTable' = InitialNewTable
    /\ posting' = FALSE
    /\ fetches' = fetches \cup {TablesFetch(selectedDatabase)}
    /\ UNCHANGED <<databases, tables, selectedDatabase, selectedTable, posted, appFrame>>

\* the POST /tables failed: the catch block leaves the form as it is
CreateTableRejected ==
    /\ posting
    /\ posting' = FALSE
    /\ UNCHANGED <<newTable, formFrame>>

FormNext ==
    \/ SetTableName
    \/ AddColumn
    \/ RemoveColumn
    \/ UpdateColumn
    \/ CreateTable
    \/ CreateTableResolved
    \/ CreateTableRejected
    \/ FetchTablesDone
    \/ FetchFailed

FormSpec == FormInit /\ [][FormNext]_vars

(***************************************************************************)
(* Properties of the create-table form (under FormSpec).                   *)
(***************************************************************************)
PrimaryKeys == {i \in 1..Len(newTable.columns) : newTable.columns[i].primaryKey}

\* C29: after any sequence of addColumn, removeColumn, updateColumn and form
\* resets, at most one column of newTable.columns has primaryKey set and the
\* column list is never empty.
C29_OnePrimaryKey ==
    /\ Cardinality(PrimaryKeys) <= 1
    /\ Len(newTable.columns) >= 1

\* the primary key was moved to a column added later
C29_Witness ==
    /\ Len(newTable.columns) = 2
    /\ PrimaryKeys = {2}
    /\ newTable.columns[1].name = "id"

(***************************************************************************)
(* The database and table selection of the React application (App.js).     *)
(***************************************************************************)
UiInit ==
    /\ TranslatorIdle
    /\ dbConnections = {}
    /\ SqlIdle /\ StoreIdle /\ ShutdownIdle /\ FormIdle
    /\ databases = <<>>
    /\ tables = <<>>
    /\ selectedDatabase = ""
    /\ selectedTable = ""
    /\ fetches = {DatabasesFetch}
    /\ posted = <<>>

Elements(seq) == {seq[i] : i \in 1..Len(seq)}

\* the database <select> or a database card: setSelectedDatabase(value), then
\* the effect on [selectedDatabase] runs
SelectDatabase ==
    \E value \in {""} \cup Elements(databases) :
       /\ value # selectedDatabase
       /\ selectedDatabase' = value
       /\ IF value # ""
          THEN /\ fetches' = fetches \cup {TablesFetch(value)}
               /\ UNCHANGED <<tables, selectedTable>>
          ELSE /\ tables' = <<>>
               /\ selectedTable' = ""
               /\ UNCHANGED fetches
       /\ UNCHANGED <<databases, posted, formVars, appFrame>>

\* the table <select>, rendered when a database is selected, its options
\* being tables: setSelectedTable(value)
SelectTable ==
    \E value \in {""} \cup Elements(tables) :
       /\ selectedDatabase # ""
       /\ value # selectedTable
       /\ selectedTable' = value
       /\ UNCHANGED <<databases, tables, selectedDatabase, fetches, posted,
                      formVars, appFrame>>

\* executeQuery with a phrase typed in: posts selectedDatabase and selectedTable
ExecuteQuery ==
    /\ selectedDatabase # ""
    /\ selectedTable # ""
    /\ posted' = <<[database |-> selectedDatabase, table |-> selectedTable]>>
    /\ UNCHANGED <<databases, tables, selectedDatabase, selectedTable, fetches,
                   formVars, appFrame>>

UiNext ==
    \/ FetchDatabasesDone
    \/ FetchTablesDone
    \/ FetchFailed
    \/ SelectDatabase
    \/ SelectTable
    \/ ExecuteQuery

UiSpec == UiInit /\ [][UiNext]_vars

(***************************************************************************)
(* Properties of the selection (under UiSpec).                             *)
(***************************************************************************)
TablesOf(dbName) == IF dbName = "" THEN {} ELSE Elements(ServerTables[dbName])

\* C30: after any sequence of database selections, table selections and
\* completed table fetches, selectedTable is empty or a table of the selected
\* database, and the table posted to /convert is a table of the database
\* posted with it.
C30_TableOfSelected ==
    /\ selectedTable = "" \/ selectedTable \in TablesOf(selectedDatabase)
    /\ \A i \in 1..Len(posted) : posted[i].table \in TablesOf(posted[i].database)

(***************************************************************************)
(* Shutdown: the connections kept in dbConnections, the metadata           *)
(* connection and the SIGINT handler.  A close of a connection is carried  *)
(* out once the statements running on that connection are finished, each   *)
(* connection on its own; its callback runs when it is carried out.        *)
(***************************************************************************)
\* the number of databases connected to, and of statements running on one
MaxConnections == 3
MaxPending == 1

DatabaseNames == <<"shop", "school", "library", "archive", "museum">>
ConnectionNames == {DatabaseNames[i] : i \in 1..MaxConnections}

ShutdownInit ==
    /\ TranslatorIdle
    /\ dbConnections = {}
    /\ SqlIdle /\ StoreIdle /\ FormIdle /\ UiIdle
    /\ conns = <<>>
    /\ metadataDB = "open"
    /\ process = "running"

shutdownFrame == <<translatorVars, sqlVars, storeVars, formVars, uiVars>>

\* a request for a database not connected to yet: getDBConnection opens and
\* keeps the connection
Connect ==
    \E dbName \in ConnectionNames \ dbConnections :
       /\ process = "running"
       /\ dbConnections' = getDBConnection(dbName)
       /\ conns' = [d \in dbConnections' |->
                       IF d = dbName THEN [state |-> "open", pending |-> 0] ELSE conns[d]]
       /\ UNCHANGED <<metadataDB, process, shutdownFrame>>

\* a request starts a statement on a kept connection
StatementStarted ==
    \E dbName \in dbConnections :
       /\ process = "running"
       /\ conns[dbName].state = "open"
       /\ conns[dbName].pending < MaxPending
       /\ conns' = [conns EXCEPT ![dbName].pending = @ + 1]
       /\ UNCHANGED <<dbConnections, metadataDB, process, shutdownFrame>>

\* a statement finishes
StatementFinished ==
    \E dbName \in dbConnections :
       /\ process # "exited"
       /\ conns[dbName].pending > 0
       /\ conns' = [conns EXCEPT ![dbName].pending = @ - 1]
       /\ UNCHANGED <<dbConnections, metadataDB, process, shutdownFrame>>

\* process.on('SIGINT'): db.close(...) for every kept connection, then
\* metadataDB.close(...)
Sigint ==
    /\ process = "running"
    /\ conns' = [d \in dbConnections |-> [conns[d] EXCEPT !.state = "closing"]]
    /\ metadataDB' = "closing"
    /\ process' = "stopping"
    /\ UNCHANGED <<dbConnections, shutdownFrame>>

\* the close of a kept connection is carried out; its callback only logs
ConnectionClosed ==
    \E dbName \in dbConnections :
       /\ process # "exited"
       /\ conns[dbName].state = "closing"
       /\ conns[dbName].pending = 0
       /\ conns' = [conns EXCEPT ![dbName].state = "closed"]
       /\ UNCHANGED <<dbConnections, metadataDB, process, shutdownFrame>>

\* the close of the metadata connection is carried out; its callback calls
\* process.exit(0)
MetadataClosed ==
    /\ process # "exited"
    /\ metadataDB = "closing"
    /\ metadataDB' = "closed"
    /\ process' = "exited"
    /\ UNCHANGED <<dbConnections, conns, shutdownFrame>>

ShutdownNext ==
    \/ Connect
    \/ StatementStarted
    \/ StatementFinished
    \/ Sigint
    \/ ConnectionClosed
    \/ MetadataClosed

ShutdownSpec == ShutdownInit /\ [][ShutdownNext]_vars

(***************************************************************************)
(* Properties of the shutdown (under ShutdownSpec).                        *)
(***************************************************************************)
\* C23: on SIGINT every connection kept in dbConnections and the metadata
\* connection have finished closing before the process exits.
C23_ClosedBeforeExit ==
    process = "exited" =>
       /\ metadataDB = "closed"
       /\ \A dbName \in dbConnections : conns[dbName].state = "closed"

(***************************************************************************)
(* The store: the database files of DB_DIR, metadata.db, POST /databases,  *)
(* POST /tables and GET /tables/:database.  One request is served at a     *)
(* time; the callbacks of a request run in the orders the connections      *)
(* allow.  POST /tables stands for every route that calls getDBConnection  *)
(* (/convert, /query, /data and /schema call it in the same way).          *)
(***************************************************************************)
\* the number of POST /tables requests served
MaxTablePosts == 2

StoreNames == {"shop", "no/dir"}
PostedColumns == {<<"id">>, <<"id", "name">>}

\* sqlite3 opens <name>.db in DB_DIR and creates it when it is missing; it
\* cannot where the name leads into a directory that does not exist
openable(name) == ~includes(name, "/")

\* initMetadataDB: databases has name as its primary key; tables and columns
\* have a key of their own, so rows alike can be inserted again
NewMetadata == [databases |-> {}, tables |-> <<>>, columns |-> <<>>]

IdleCreate == [pc |-> "idle", name |-> "", open |-> FALSE, insert |-> FALSE,
               calls |-> <<>>, thrown |-> "", stored |-> <<>>]
IdleMake == [pc |-> "idle", database |-> "", table_name |-> "", columns |-> <<>>,
             status |-> 0]
IdleList == [pc |-> "idle", database |-> "", status |-> 0, tables |-> <<>>]

StoreInit ==
    /\ TranslatorIdle
    /\ dbConnections = {}
    /\ SqlIdle /\ ShutdownIdle /\ FormIdle /\ UiIdle
    /\ files = {}
    /\ metadata = NewMetadata
    /\ catalog = <<>>
    /\ orphans = {}
    /\ crt = IdleCreate
    /\ mkt = IdleMake
    /\ lst = IdleList

storeFrame == <<translatorVars, sqlVars, shutdownVars, formVars, uiVars>>

\* no request is being served and no callback has thrown
Quiet ==
    /\ crt.pc \in {"idle", "done"} /\ crt.thrown = ""
    /\ mkt.pc \in {"idle", "done"}
    /\ lst.pc \in {"idle", "done"}

\* res.status(status).json(...): a second call for one request throws
\* ERR_HTTP_HEADERS_SENT
respond(req, code, message) ==
    [req EXCEPT !.calls = Append(@, [status |-> code, message |-> message]),
                !.thrown = IF req.calls # <<>> THEN "ERR_HTTP_HEADERS_SENT" ELSE @]

\* the request is over when both callbacks have run or one has thrown
settled(req) ==
    [req EXCEPT !.pc = IF (req.open /\ req.insert) \/ req.thrown # "" THEN "done" ELSE @]

\* POST /databases: 400 without a name; otherwise the file is opened, the
\* close and the metadata insert are queued
DatabasesRequest ==
    \E name \in {""} \cup StoreNames :
       /\ Quiet
       /\ crt' = IF name = ""
                 THEN respond([IdleCreate EXCEPT !.pc = "done"], 400,
                              "Database name is required")
                 ELSE [IdleCreate EXCEPT !.pc = "pending", !.name = name,
                          !.stored = [files |-> files, catalog |-> catalog,
                                      databases |-> metadata.databases]]
       /\ mkt' = IdleMake
       /\ lst' = IdleList
       /\ UNCHANGED <<files, metadata, catalog, orphans, dbConnections, storeFrame>>

\* the open is carried out and its callback runs: the file is there now, or
\* the callback answers 500
DatabasesOpenCallback ==
    /\ crt.pc = "pending" /\ ~crt.open /\ crt.thrown = ""
    /\ IF openable(crt.name)
       THEN /\ files' = files \cup {crt.name}
            /\ catalog' = [d \in files' |-> IF d \in files THEN catalog[d] ELSE <<>>]
            /\ crt' = settled([crt EXCEPT !.open = TRUE])
       ELSE /\ crt' = settled(respond([crt EXCEPT !.open = TRUE], 500,
                                      "Failed to create database file"))
            /\ UNCHANGED <<files, catalog>>
    /\ UNCHANGED <<metadata, orphans, mkt, lst, dbConnections, storeFrame>>

\* the metadata insert is carried out and its callback runs: on a name that
\* is there already it fails, fs.unlinkSync(dbPath) deletes the file (and
\* throws when there is none) and the callback answers 500
DatabasesInsertCallback ==
    /\ crt.pc = "pending" /\ ~crt.insert /\ crt.thrown = ""
    /\ IF crt.name \in metadata.databases
       THEN /\ IF crt.name \in files
               THEN /\ files' = files \ {crt.name}
                    /\ catalog' = [d \in files' |-> catalog[d]]
                    /\ orphans' = orphans \cup ({crt.name} \cap dbConnections)
                    /\ crt' = settled(respond([crt EXCEPT !.insert = TRUE], 500,
                                              "UNIQUE constraint failed"))
               ELSE /\ crt' = settled([crt EXCEPT !.insert = TRUE, !.thrown = "ENOENT"])
                    /\ UNCHANGED <<files, catalog, orphans>>
            /\ UNCHANGED metadata
       ELSE /\ metadata' = [metadata EXCEPT !.databases = @ \cup {crt.name}]
            /\ crt' = settled(respond([crt EXCEPT !.insert = TRUE], 200,
                                      "Database created successfully"))
            /\ UNCHANGED <<files, catalog, orphans>>
    /\ UNCHANGED <<mkt, lst, dbConnections, storeFrame>>

\* POST /tables: 400 without a database; otherwise getDBConnection and the
\* CREATE TABLE IF NOT EXISTS statement is queued
TablesRequest ==
    \E name \in {""} \cup StoreNames, columns \in PostedColumns :
       /\ Quiet
       /\ Len(metadata.tables) < MaxTablePosts
       /\ IF name = ""
          THEN /\ mkt' = [IdleMake EXCEPT !.pc = "done", !.status = 400]
               /\ UNCHANGED dbConnections
          ELSE /\ dbConnections' = getDBConnection(name)
               /\ mkt' = [IdleMake EXCEPT !.pc = "run", !.database = name,
                             !.table_name = "users", !.columns = columns]
       /\ crt' = IdleCreate
       /\ lst' = IdleList
       /\ UNCHANGED <<files, metadata, catalog, orphans, storeFrame>>

\* the connection is open (its file created when it was missing) and the
\* statement is carried out: the table is created unless it is there; on a
\* connection whose file was deleted nothing of it is seen in DB_DIR
TablesRunCallback ==
    /\ mkt.pc = "run"
    /\ IF ~openable(mkt.database)
       THEN /\ mkt' = [mkt EXCEPT !.pc = "done", !.status = 500]
            /\ UNCHANGED <<files, catalog>>
       ELSE /\ mkt' = [mkt EXCEPT !.pc = "insert"]
            /\ IF mkt.database \in orphans
               THEN UNCHANGED <<files, catalog>>
               ELSE /\ files' = files \cup {mkt.database}
                    /\ catalog' =
                          [d \in files' |->
                              IF d # mkt.database THEN catalog[d]
                              ELSE IF d \in files /\ mkt.table_name \in DOMAIN catalog[d]
                                   THEN catalog[d]
                                   ELSE [t \in {mkt.table_name} |-> mkt.columns]]
    /\ UNCHANGED <<metadata, orphans, crt, lst, dbConnections, storeFrame>>

\* INSERT INTO tables is carried out; the column rows are queued
TablesInsertCallback ==
    /\ mkt.pc = "insert"
    /\ metadata' = [metadata EXCEPT
                       !.tables = Append(@, <<mkt.database, mkt.table_name>>)]
    /\ mkt' = [mkt EXCEPT !.pc = "columns"]
    /\ UNCHANGED <<files, catalog, orphans, crt, lst, dbConnections, storeFrame>>

\* every INSERT INTO columns is carried out, Promise.all resolves: 200
TablesColumnsDone ==
    /\ mkt.pc = "columns"
    /\ metadata' = [metadata EXCEPT
                       !.columns = @ \o [i \in 1..Len(mkt.columns) |->
                                            <<mkt.database, mkt.table_name, mkt.columns[i]>>]]
    /\ mkt' = [mkt EXCEPT !.pc = "done", !.status = 200]
    /\ UNCHANGED <<files, catalog, orphans, crt, lst, dbConnections, storeFrame>>

\* GET /tables/:database: 404 unless fs.existsSync(dbPath)
ListRequest ==
    \E name \in StoreNames :
       /\ Quiet
       /\ lst' = IF name \notin files
                 THEN [IdleList EXCEPT !.pc = "done", !.database = name, !.status = 404]
                 ELSE [IdleList EXCEPT !.pc = "query", !.database = name]
       /\ crt' = IdleCreate
       /\ mkt' = IdleMake
       /\ UNCHANGED <<files, metadata, catalog, orphans, dbConnections, storeFrame>>

\* COUNT(c.column_name) of tables t LEFT JOIN columns c ... GROUP BY
\* t.table_name: the pairs of a tables row and a columns row of the table
columnCount(md, name, t) ==
    Cardinality({p \in (1..Len(md.tables)) \X (1..Len(md.columns)) :
                    /\ md.tables[p[1]] = <<name, t>>
                    /\ md.columns[p[2]][1] = name
                    /\ md.columns[p[2]][2] = t})

\* the query is carried out: one row for each table name of the database
ListCallback ==
    /\ lst.pc = "query"
    /\ lst' = [lst EXCEPT
                  !.pc = "done", !.status = 200,
                  !.tables =
                     [t \in {metadata.tables[i][2] :
                               i \in {j \in 1..Len(metadata.tables) :
                                        metadata.tables[j][1] = lst.database}} |->
                         columnCount(metadata, lst.database, t)]]
    /\ UNCHANGED <<files, metadata, catalog, orphans, crt, mkt, dbConnections, storeFrame>>

StoreNext ==
    \/ DatabasesRequest
    \/ DatabasesOpenCallback
    \/ DatabasesInsertCallback
    \/ TablesRequest
    \/ TablesRunCallback
    \/ TablesInsertCallback
    \/ TablesColumnsDone
    \/ ListRequest
    \/ ListCallback

StoreSpec == StoreInit /\ [][StoreNext]_vars

(***************************************************************************)
(* Properties of the store (under StoreSpec).                              *)
(***************************************************************************)
\* C22: GET /tables/:database returns, for each table of the database, a
\* column_count equal to the number of columns the table has, after any
\* sequence of POST /tables requests, a table name posted again included.
C22_ColumnCount ==
    lst.pc = "done" /\ lst.status = 200 =>
       \A t \in DOMAIN lst.tables :
          t \in DOMAIN catalog[lst.database] =>
             lst.tables[t] = Len(catalog[lst.database][t])

\* C24: a POST /databases request that ends in an error response leaves the
\* stored databases as they were when it arrived: the files, their tables
\* and the rows of databases.
C24_ErrorLeavesStore ==
    crt.pc = "done" /\ crt.name # "" /\ (\E i \in 1..Len(crt.calls) : crt.calls[i].status >= 400) =>
       /\ files = crt.stored.files
       /\ catalog = crt.stored.catalog
       /\ metadata.databases = crt.stored.databases

\* C25: GET /tables/:database answers 404 for every name that POST /databases
\* never created, whatever requests were served before.
C25_NotFound ==
    lst.pc = "done" /\ lst.database \notin metadata.databases => lst.status = 404

\* C27: a POST /databases request is answered once, in either order of the
\* open callback and the insert callback, and the answer "Failed to create
\* database file" comes with no row of databases for the name.
C27_OneResponse ==
    /\ Len(crt.calls) <= 1
    /\ (\E i \in 1..Len(crt.calls) : crt.calls[i].message = "Failed to create database file")
          => crt.name \notin metadata.databases

====
